---- MODULE Spec2Model ----
(***************************************************************************)
(* Gmail Subscription Cleaner: the credential cache, the two transports    *)
(* (gmailApiRequest of the background worker, GmailAPI.request of the API  *)
(* wrapper class), the retry wrapper GmailAPI.retryWithBackoff, the sender  *)
(* aggregation (analyzeMessages of the worker and of EmailParser) and the  *)
(* synchronisation flow (listing, detail fetching, analysis, caching).     *)
(*                                                                         *)
(* Time is counted in minutes. Error objects are modelled by their message *)
(* (the code tells failures apart by message only); the Russian messages   *)
(* are transliterated letter by letter, the original is given beside each. *)
(***************************************************************************)
EXTENDS Naturals, Integers, Sequences, FiniteSets, TLC

VARIABLES
  unit,               \* which script this run exercises: the worker or the class
  now,                \* Date.now(), in minutes
  accessToken,        \* background.js: let accessToken
  tokenExpiresAt,     \* background.js: let tokenExpiresAt
  apiAccessToken,     \* GmailAPI: this.accessToken
  apiTokenExpiresAt,  \* GmailAPI: this.tokenExpiresAt
  refused,            \* history of 401 answers: never, or the refused credential is cached / cleared
  ev,                 \* history: what the last step did
  inflight,           \* the transport call awaiting its response
  rPc, rI, rMaxRetries, rLastError, rResult, rTrace,  \* one run of retryWithBackoff
  aMessages,          \* the summaries handed to analyzeMessages
  aPc,                \* whether analyzeMessages has run on them
  aResult,            \* what analyzeMessages returned
  sOp,                \* the operation of the synchronisation that runs
  sPc,                \* where it stands: idle, list, get, cache, done, failed
  maxResults,         \* its argument maxResults
  messageIds,         \* const messageIds: the ids listed so far (or handed over)
  pageToken,          \* let pageToken; 0 is null
  sPages,             \* how many pages the provider has served
  sI,                 \* the position in messageIds of the detail awaited
  messages,           \* const messages: the ids whose details were fetched
  sFails,             \* how many detail calls have failed
  sLog,               \* history: requests, answers, pauses and reports in order
  sError,             \* the failure the operation ended with
  storage,            \* chrome.storage.local: emailAnalysis and lastUpdated
  dEmail,             \* the argument of deleteEmailsFromSender
  dResult,            \* the value the deletion resolved with
  dReply,             \* what the deleteEmails listener passed to sendResponse
  whitelist,          \* PopupController: this.whitelist
  storedWhitelist,    \* chrome.storage.local: whitelist
  uiPc,               \* the popup: idle, or its confirmation dialog is open
  uiEmail,            \* the sender the dialog asks about
  uiSent,             \* history: the deleteEmails requests the popup has sent
  dCached,            \* deleteEmailsFromSender: const cached, what its storage.get read
  oPc,                \* two overlapping operations: where each stands at the cache
  oLog,               \* history: their reads and writes of emailAnalysis in order
  replies,            \* how often the listener has called sendResponse for the request
  actionHistory,      \* chrome.storage.local: actionHistory, the records newest first
  history,            \* addToHistory: const history, between its two awaits
  hPc,                \* addToHistory: idle, or its storage.set is awaited
  hCalls,             \* how many addToHistory calls were made; the last record is hCalls
  wCalls              \* the calls of StorageManager's white-list functions under way

credVars == <<accessToken, tokenExpiresAt, apiAccessToken, apiTokenExpiresAt>>
retryVars == <<rPc, rI, rMaxRetries, rLastError, rResult, rTrace>>
aggVars == <<aMessages, aPc, aResult>>
syncVars == <<sOp, sPc, maxResults, messageIds, pageToken, sPages, sI, messages, sFails,
              sLog, sError, storage>>
deleteVars == <<dEmail, dResult, dReply>>
uiVars == <<whitelist, storedWhitelist, uiPc, uiEmail, uiSent>>
overlapVars == <<dCached, oPc, oLog>>
managerVars == <<actionHistory, history, hPc, hCalls, wCalls>>
storeVars == <<overlapVars, replies, managerVars>>
flowVars == <<aggVars, syncVars, deleteVars, uiVars, storeVars>>
vars == <<unit, now, accessToken, tokenExpiresAt, apiAccessToken, apiTokenExpiresAt,
          refused, ev, inflight, rPc, rI, rMaxRetries, rLastError, rResult, rTrace,
          aMessages, aPc, aResult, sOp, sPc, maxResults, messageIds, pageToken,
          sPages, sI, messages, sFails, sLog, sError, storage, dEmail, dResult,
          dReply, whitelist, storedWhitelist, uiPc, uiEmail, uiSent, dCached, oPc,
          oLog, replies, actionHistory, history, hPc, hCalls, wCalls>>

---------------------------------------------------------------------------
(* Bounds of the model *)

\* the clock advances in steps of TickStep minutes, up to MaxTime
TickStep == 55
MaxTime == 110
\* retryWithBackoff is started with maxRetries in 0..MaxMaxRetries
MaxMaxRetries == 4
\* analyzeMessages is given lists of at most MaxMessages summaries
MaxMessages == 3
\* and, when the summaries vary in their bulk-mail headers, at most MaxListed
MaxListed == 2
\* a List-Unsubscribe value has at most MaxUris entries
MaxUris == 3
\* the provider's mailbox has at most MaxPages pages
MaxPages == 4
\* the largest maxResults of a listing, and of loadAndAnalyzeEmails
MaxCap == 250
MaxSyncCap == 12
\* at most MaxFailures detail calls of a run fail
MaxFailures == 2
\* the detail fetchers are given up to MaxBatches full batches and one id more
MaxBatches == 1
\* batchDelete is given up to MaxChunks - 1 full chunks and one id more
MaxChunks == 3
\* the popup sends at most MaxClicks deleteEmails requests
MaxClicks == 2
\* the listed messages of an overlapping or serialized synchronisation
MaxFresh == 2
\* the messages of a synchronisation in a series, and the operations of a series
MaxSerial == 3
MaxOps == 3
\* the request caps, the ids of a page and the ids enumerated when only the
\* end of a request is followed
MaxLiveCap == 3
MaxLivePage == 2
MaxLive == 4
\* the addToHistory calls made
MaxCalls == 60
\* the white-list calls that overlap
MaxOverlap == 2

(* Program constants *)
\* storage.js: `if (history.length > 100) history.splice(100)`
HistoryCap == 100
\* storage.js: getHistory(limit = 50)
HistoryLimit == 50

\* 55 * 60 * 1000 ms: how long a fetched token stays cached
TokenLifetime == 55
\* background.js: const BATCH_SIZE, const RATE_LIMIT_DELAY (ms)
BATCH_SIZE == 100
RATE_LIMIT_DELAY == 500
\* GmailAPI: this.rateLimitDelay (ms)
rateLimitDelay == 100
\* deleteEmailsFromSender: const batchSize, and maxResults of its listing
DeleteBatchSize == 1000
DeletePageSize == 500

---------------------------------------------------------------------------
(* Values *)

\* JS null, and a token the consent mechanism hands over empty (undefined or "")
Null == "null"
Empty == "undefined"
Tokens == {"ya29.A", "ya29.B"}
None == "none"

\* tokenExpiresAt = null; like null, the instant 0 is falsy in JS
NullTime == 0

\* JS truthiness of a token, and of an expiry instant
Truthy(token) == token # Null /\ token # Empty
TruthyTime(t) == t # NullTime

\* 'Требуется повторная авторизация'
MsgReauth == "Trebuetsya povtornaya avtorizatsiya"
\* background.js: 'Недостаточно прав доступа. Проверьте scopes в Google Cloud Console.'
MsgForbiddenBg == "Nedostatochno prav dostupa. Proverte scopes v Google Cloud Console."
\* gmail-api.js: 'Недостаточно прав доступа'
MsgForbiddenApi == "Nedostatochno prav dostupa"
\* 'Превышен лимит запросов. Попробуйте позже.'
MsgRateLimit == "Prevyshen limit zaprosov. Poprobuyte pozzhe."
\* 'Сервер Gmail временно недоступен. Попробуйте позже.'
MsgUnavailable == "Server Gmail vremenno nedostupen. Poprobuyte pozzhe."
\* 'Сервер вернул не JSON ответ'
MsgNotJson == "Server vernul ne JSON otvet"
\* background.js authenticate: 'Не удалось получить токен авторизации'
MsgNoAuthToken == "Ne udalos poluchit token avtorizatsii"
\* gmail-api.js: 'Не удалось получить токен'
MsgNoToken == "Ne udalos poluchit token"
\* what response.json() throws on a body that is not JSON (empty included)
MsgSyntaxError == "SyntaxError: Unexpected end of JSON input"
\* chrome.runtime.lastError.message of a declined or failed token request
ChromeErrors == {"OAuth2 not granted or revoked."}
\* error.error.message of the provider's error bodies; "" is present but falsy
ProviderMsgs == {"Backend Error", ""}

HttpMsg(status) == "HTTP " \o ToString(status)

\* what chrome.identity.getAuthToken calls back with
FetchOutcomes ==
  [kind : {"error"}, token : {None}, message : ChromeErrors]
    \cup [kind : {"token"}, token : Tokens \cup {Empty}, message : {None}]
NoFetch == [kind |-> None, token |-> None, message |-> None]

\* content-type header: absent, a JSON type, another type
ContentTypes == {Null, "application/json; charset=UTF-8", "text/html"}
\* contentType.includes('application/json')
IncludesJson(ct) == ct = "application/json; charset=UTF-8"

\* response bodies: nothing, text that is not JSON, a JSON object with or
\* without error.message
Bodies ==
  [kind : {"empty", "text"}, hasMessage : {FALSE}, message : {None}]
    \cup [kind : {"json"}, hasMessage : {FALSE}, message : {None}]
    \cup [kind : {"json"}, hasMessage : {TRUE}, message : ProviderMsgs]

Statuses == {200, 204, 404, 401, 403, 429, 500, 502, 503}

\* a 204 response carries no body (fetch gives it a null body)
Responses ==
  {r \in [status : Statuses, contentType : ContentTypes, body : Bodies] :
     r.status = 204 => r.body.kind = "empty"}
NoResponse ==
  [status |-> 0, contentType |-> Null,
   body |-> [kind |-> None, hasMessage |-> FALSE, message |-> None]]

\* response.ok
Ok(response) == response.status >= 200 /\ response.status <= 299

---------------------------------------------------------------------------
(* Credential cache *)

\* a mutant of CacheHit: the token is still served at the instant it expires
CacheHit_AtExpiry(token, expiresAt, interactive) ==
  ~interactive /\ Truthy(token) /\ TruthyTime(expiresAt) /\ now <= expiresAt

\* background.js getAuthToken: the test that serves the cached token
CacheHit(token, expiresAt, interactive) ==
  ~interactive /\ Truthy(token) /\ TruthyTime(expiresAt) /\ now < expiresAt

\* background.js getAuthToken(interactive) on the cache (token, expiresAt), the
\* consent mechanism answering fetch: what it returns or throws, which calls it
\* made, and the cache it leaves
getAuthToken(token, expiresAt, interactive, fetch) ==
  IF CacheHit(token, expiresAt, interactive)
  THEN [threw |-> FALSE, error |-> None, token |-> token, source |-> "cache",
        fetched |-> FALSE, cleared |-> FALSE,
        accessToken |-> token, tokenExpiresAt |-> expiresAt]
  ELSE IF fetch.kind = "error"
  THEN [threw |-> TRUE, error |-> fetch.message, token |-> None, source |-> None,
        fetched |-> TRUE, cleared |-> interactive,
        accessToken |-> IF interactive THEN Null ELSE token,
        tokenExpiresAt |-> IF interactive THEN NullTime ELSE expiresAt]
  ELSE [threw |-> FALSE, error |-> None, token |-> fetch.token, source |-> "fresh",
        fetched |-> TRUE, cleared |-> interactive,
        accessToken |-> fetch.token, tokenExpiresAt |-> now + TokenLifetime]

\* a mutant of ApiCacheHit: the comparison with the expiry is inverted
ApiCacheHit_Inverted(token, expiresAt) ==
  Truthy(token) /\ TruthyTime(expiresAt) /\ now > expiresAt

\* GmailAPI.getAuthToken: the test that serves the cached token
ApiCacheHit(token, expiresAt) ==
  Truthy(token) /\ TruthyTime(expiresAt) /\ now < expiresAt

\* GmailAPI.getAuthToken(interactive)
ApiGetAuthToken(token, expiresAt, interactive, fetch) ==
  IF ApiCacheHit(token, expiresAt)
  THEN [threw |-> FALSE, error |-> None, token |-> token, source |-> "cache",
        fetched |-> FALSE, cleared |-> FALSE,
        accessToken |-> token, tokenExpiresAt |-> expiresAt]
  ELSE IF fetch.kind = "error"
  THEN [threw |-> TRUE, error |-> fetch.message, token |-> None, source |-> None,
        fetched |-> TRUE, cleared |-> FALSE,
        accessToken |-> token, tokenExpiresAt |-> expiresAt]
  ELSE IF ~Truthy(fetch.token)
  THEN [threw |-> TRUE, error |-> MsgNoToken, token |-> None, source |-> None,
        fetched |-> TRUE, cleared |-> FALSE,
        accessToken |-> token, tokenExpiresAt |-> expiresAt]
  ELSE [threw |-> FALSE, error |-> None, token |-> fetch.token, source |-> "fresh",
        fetched |-> TRUE, cleared |-> FALSE,
        accessToken |-> fetch.token, tokenExpiresAt |-> now + TokenLifetime]

---------------------------------------------------------------------------
(* Response handling of the two transports *)

\* response.json(): throws unless the body is JSON
JsonThrows(response) == response.body.kind # "json"

\* error.error?.message || `HTTP ${response.status}`
ErrorMessage(response) ==
  IF ~JsonThrows(response) /\ response.body.hasMessage /\ response.body.message # ""
  THEN response.body.message
  ELSE HttpMsg(response.status)

\* a mutant of gmailApiError: the cache is cleared on 403 as well as on 401
gmailApiError_ResetOn403(response) ==
  IF response.status = 401
  THEN [threw |-> TRUE, error |-> MsgReauth, result |-> None, reset |-> TRUE]
  ELSE IF response.status = 429
  THEN [threw |-> TRUE, error |-> MsgRateLimit, result |-> None, reset |-> FALSE]
  ELSE IF response.status = 403
  THEN [threw |-> TRUE, error |-> MsgForbiddenBg, result |-> None, reset |-> TRUE]
  ELSE [threw |-> TRUE, error |-> ErrorMessage(response), result |-> None,
        reset |-> FALSE]

\* gmailApiRequest, the branch `if (!response.ok)`: what is thrown; reset says
\* that the cached credential is cleared
gmailApiError(response) ==
  IF response.status = 401
  THEN [threw |-> TRUE, error |-> MsgReauth, result |-> None, reset |-> TRUE]
  ELSE IF response.status = 429
  THEN [threw |-> TRUE, error |-> MsgRateLimit, result |-> None, reset |-> FALSE]
  ELSE IF response.status = 403
  THEN [threw |-> TRUE, error |-> MsgForbiddenBg, result |-> None, reset |-> FALSE]
  ELSE [threw |-> TRUE, error |-> ErrorMessage(response), result |-> None,
        reset |-> FALSE]

\* gmailApiRequest after the branch `if (!response.ok)`: a response that is ok
gmailApiSuccess(response) ==
  IF response.status = 204
  THEN [threw |-> FALSE, error |-> None, result |-> "{}", reset |-> FALSE]
  ELSE IF response.contentType = Null \/ ~IncludesJson(response.contentType)
  THEN IF response.body.kind = "empty"
       THEN [threw |-> FALSE, error |-> None, result |-> "{}", reset |-> FALSE]
       ELSE [threw |-> TRUE, error |-> MsgNotJson, result |-> None, reset |-> FALSE]
  ELSE IF JsonThrows(response)
  THEN [threw |-> TRUE, error |-> MsgSyntaxError, result |-> None, reset |-> FALSE]
  ELSE [threw |-> FALSE, error |-> None, result |-> "parsed", reset |-> FALSE]

\* gmailApiRequest from the response on
BgOnResponse(response) ==
  IF ~Ok(response) THEN gmailApiError(response) ELSE gmailApiSuccess(response)

\* a mutant of handleError: the 401 case throws without resetToken()
handleError_KeepsToken(response) ==
  IF response.status = 401
  THEN [threw |-> TRUE, error |-> MsgReauth, result |-> None, reset |-> FALSE]
  ELSE IF response.status = 403
  THEN [threw |-> TRUE, error |-> MsgForbiddenApi, result |-> None, reset |-> FALSE]
  ELSE IF response.status = 429
  THEN [threw |-> TRUE, error |-> MsgRateLimit, result |-> None, reset |-> FALSE]
  ELSE IF response.status \in {500, 502, 503}
  THEN [threw |-> TRUE, error |-> MsgUnavailable, result |-> None, reset |-> FALSE]
  ELSE [threw |-> TRUE, error |-> ErrorMessage(response), result |-> None,
        reset |-> FALSE]

\* a mutant of handleError: the 429 case is missing and falls to the default
handleError_No429(response) ==
  IF response.status = 401
  THEN [threw |-> TRUE, error |-> MsgReauth, result |-> None, reset |-> TRUE]
  ELSE IF response.status = 403
  THEN [threw |-> TRUE, error |-> MsgForbiddenApi, result |-> None, reset |-> FALSE]
  ELSE IF response.status \in {500, 502, 503}
  THEN [threw |-> TRUE, error |-> MsgUnavailable, result |-> None, reset |-> FALSE]
  ELSE [threw |-> TRUE, error |-> ErrorMessage(response), result |-> None,
        reset |-> FALSE]

\* GmailAPI.handleError(response)
handleError(response) ==
  IF response.status = 401
  THEN [threw |-> TRUE, error |-> MsgReauth, result |-> None, reset |-> TRUE]
  ELSE IF response.status = 403
  THEN [threw |-> TRUE, error |-> MsgForbiddenApi, result |-> None, reset |-> FALSE]
  ELSE IF response.status = 429
  THEN [threw |-> TRUE, error |-> MsgRateLimit, result |-> None, reset |-> FALSE]
  ELSE IF response.status \in {500, 502, 503}
  THEN [threw |-> TRUE, error |-> MsgUnavailable, result |-> None, reset |-> FALSE]
  ELSE [threw |-> TRUE, error |-> ErrorMessage(response), result |-> None,
        reset |-> FALSE]

\* GmailAPI.request from `if (!response.ok)` on
ApiOnResponse(response) ==
  IF ~Ok(response)
  THEN handleError(response)
  ELSE IF JsonThrows(response)
  THEN [threw |-> TRUE, error |-> MsgSyntaxError, result |-> None, reset |-> FALSE]
  ELSE [threw |-> FALSE, error |-> None, result |-> "parsed", reset |-> FALSE]

---------------------------------------------------------------------------
(* The operations. A transport call takes two steps, one up to the await of  *)
(* fetch() and one from the response on; other operations and the clock run  *)
(* in between. One transport call is in flight at a time.                    *)

\* the record of a step. before and after are the cache the step found and
\* left: held says that it found a token cached, expired that the clock had
\* reached the expiry it found, changed that it left another cache, same that
\* the acquisition returned the token it found
Event(op, step, interactive, before, after, a, fetch, sent, response, o) ==
  [op |-> op, step |-> step, interactive |-> interactive,
   held |-> Truthy(before.token) /\ TruthyTime(before.expiresAt),
   expired |-> now >= before.expiresAt,
   changed |-> after # before,
   source |-> a.source, token |-> a.token, same |-> a.token = before.token,
   fetched |-> a.fetched, cleared |-> a.cleared,
   fetch |-> IF a.fetched THEN fetch ELSE NoFetch,
   sent |-> sent,
   sentRefused |-> sent /\ a.source = "cache" /\ refused = "cached",
   response |-> response,
   threw |-> o.threw, error |-> o.error, result |-> o.result]

\* the consent mechanism's answer is left out of a step that did not ask for it
Asked(a, fetch) ==
  a.fetched \/ fetch = [kind |-> "error", token |-> None,
                        message |-> "OAuth2 not granted or revoked."]

NoCall == [op |-> None, token |-> None, source |-> None]
NoAcquire ==
  [threw |-> FALSE, error |-> None, token |-> None, source |-> None,
   fetched |-> FALSE, cleared |-> FALSE]

\* history of 401 answers after an acquisition: a refused credential that is
\* replaced or cleared is no longer the cached one
RefusedAfterAcquire(a) ==
  IF refused = "cached" /\ ((a.fetched /\ ~a.threw) \/ a.cleared)
  THEN "cleared" ELSE refused

\* history of 401 answers after a response to a request that carried token and
\* that leaves cached in the cache
RefusedAfterResponse(token, response, cached) ==
  IF response.status = 401
  THEN IF Truthy(cached) /\ cached = token THEN "cached" ELSE "cleared"
  ELSE refused

\* background.js checkAuthentication()
checkAuthentication(fetch) ==
  /\ unit = "background"
  /\ LET a == getAuthToken(Null, NullTime, FALSE, fetch)
         authenticated == ~a.threw /\ Truthy(a.token)
     IN
       /\ accessToken' = a.accessToken
       /\ tokenExpiresAt' = a.tokenExpiresAt
       /\ refused' = RefusedAfterAcquire([a EXCEPT !.cleared = TRUE])
       /\ ev' = Event("checkAuthentication", "acquire", FALSE,
                      [token |-> accessToken, expiresAt |-> tokenExpiresAt],
                      [token |-> a.accessToken, expiresAt |-> a.tokenExpiresAt],
                      [a EXCEPT !.cleared = TRUE], fetch, FALSE, NoResponse,
                      [threw |-> FALSE, error |-> None,
                       result |-> IF authenticated THEN "true" ELSE "false"])
  /\ UNCHANGED <<unit, now, apiAccessToken, apiTokenExpiresAt, inflight, retryVars, flowVars>>

\* background.js authenticate()
authenticate(fetch) ==
  /\ unit = "background"
  /\ LET a == getAuthToken(accessToken, tokenExpiresAt, TRUE, fetch) IN
       /\ accessToken' = a.accessToken
       /\ tokenExpiresAt' = a.tokenExpiresAt
       /\ refused' = RefusedAfterAcquire(a)
       /\ ev' = Event("authenticate", "acquire", TRUE,
                      [token |-> accessToken, expiresAt |-> tokenExpiresAt],
                      [token |-> a.accessToken, expiresAt |-> a.tokenExpiresAt],
                      a, fetch, FALSE, NoResponse,
                      IF a.threw
                      THEN [threw |-> TRUE, error |-> a.error, result |-> None]
                      ELSE IF ~Truthy(a.token)
                      THEN [threw |-> TRUE, error |-> MsgNoAuthToken, result |-> None]
                      ELSE [threw |-> FALSE, error |-> None, result |-> "true"])
  /\ UNCHANGED <<unit, now, apiAccessToken, apiTokenExpiresAt, inflight, retryVars, flowVars>>

\* background.js gmailApiRequest(endpoint, options), up to the await of fetch()
gmailApiRequest(fetch) ==
  /\ unit = "background"
  /\ inflight = NoCall
  /\ LET a == getAuthToken(accessToken, tokenExpiresAt, FALSE, fetch) IN
       /\ Asked(a, fetch)
       /\ accessToken' = a.accessToken
       /\ tokenExpiresAt' = a.tokenExpiresAt
       /\ refused' = RefusedAfterAcquire(a)
       /\ inflight' = IF a.threw THEN NoCall
                      ELSE [op |-> "gmailApiRequest", token |-> a.token,
                            source |-> a.source]
       /\ ev' = Event("gmailApiRequest", "send", FALSE,
                      [token |-> accessToken, expiresAt |-> tokenExpiresAt],
                      [token |-> a.accessToken, expiresAt |-> a.tokenExpiresAt],
                      a, fetch, ~a.threw, NoResponse,
                      [threw |-> a.threw, error |-> a.error, result |-> None])
  /\ UNCHANGED <<unit, now, apiAccessToken, apiTokenExpiresAt, retryVars, flowVars>>

\* background.js gmailApiRequest, from the response on
gmailApiResponse(response) ==
  /\ unit = "background"
  /\ inflight.op = "gmailApiRequest"
  /\ LET o == BgOnResponse(response)
         after == IF o.reset THEN [token |-> Null, expiresAt |-> NullTime]
                  ELSE [token |-> accessToken, expiresAt |-> tokenExpiresAt]
     IN
       /\ accessToken' = after.token
       /\ tokenExpiresAt' = after.expiresAt
       /\ refused' = RefusedAfterResponse(inflight.token, response, after.token)
       /\ inflight' = NoCall
       /\ ev' = Event("gmailApiRequest", "response", FALSE,
                      [token |-> accessToken, expiresAt |-> tokenExpiresAt], after,
                      [NoAcquire EXCEPT !.token = inflight.token,
                                        !.source = inflight.source],
                      NoFetch, FALSE, response, o)
  /\ UNCHANGED <<unit, now, apiAccessToken, apiTokenExpiresAt, retryVars, flowVars>>

\* GmailAPI.getAuthToken(interactive), called on its own
ApiAcquire(interactive, fetch) ==
  /\ unit = "GmailAPI"
  /\ LET a == ApiGetAuthToken(apiAccessToken, apiTokenExpiresAt, interactive, fetch) IN
       /\ Asked(a, fetch)
       /\ apiAccessToken' = a.accessToken
       /\ apiTokenExpiresAt' = a.tokenExpiresAt
       /\ refused' = RefusedAfterAcquire(a)
       /\ ev' = Event("GmailAPI.getAuthToken", "acquire", interactive,
                      [token |-> apiAccessToken, expiresAt |-> apiTokenExpiresAt],
                      [token |-> a.accessToken, expiresAt |-> a.tokenExpiresAt],
                      a, fetch, FALSE, NoResponse,
                      [threw |-> a.threw, error |-> a.error,
                       result |-> IF a.threw THEN None ELSE "token"])
  /\ UNCHANGED <<unit, now, accessToken, tokenExpiresAt, inflight, retryVars, flowVars>>

\* GmailAPI.request(endpoint, options), up to the await of fetch()
ApiRequest(fetch) ==
  /\ unit = "GmailAPI"
  /\ inflight = NoCall
  /\ LET a == ApiGetAuthToken(apiAccessToken, apiTokenExpiresAt, FALSE, fetch) IN
       /\ Asked(a, fetch)
       /\ apiAccessToken' = a.accessToken
       /\ apiTokenExpiresAt' = a.tokenExpiresAt
       /\ refused' = RefusedAfterAcquire(a)
       /\ inflight' = IF a.threw THEN NoCall
                      ELSE [op |-> "GmailAPI.request", token |-> a.token,
                            source |-> a.source]
       /\ ev' = Event("GmailAPI.request", "send", FALSE,
                      [token |-> apiAccessToken, expiresAt |-> apiTokenExpiresAt],
                      [token |-> a.accessToken, expiresAt |-> a.tokenExpiresAt],
                      a, fetch, ~a.threw, NoResponse,
                      [threw |-> a.threw, error |-> a.error, result |-> None])
  /\ UNCHANGED <<unit, now, accessToken, tokenExpiresAt, retryVars, flowVars>>

\* GmailAPI.request, from the response on
ApiResponse(response) ==
  /\ unit = "GmailAPI"
  /\ inflight.op = "GmailAPI.request"
  /\ LET o == ApiOnResponse(response)
         after == IF o.reset THEN [token |-> Null, expiresAt |-> NullTime]
                  ELSE [token |-> apiAccessToken, expiresAt |-> apiTokenExpiresAt]
     IN
       /\ apiAccessToken' = after.token
       /\ apiTokenExpiresAt' = after.expiresAt
       /\ refused' = RefusedAfterResponse(inflight.token, response, after.token)
       /\ inflight' = NoCall
       /\ ev' = Event("GmailAPI.request", "response", FALSE,
                      [token |-> apiAccessToken, expiresAt |-> apiTokenExpiresAt], after,
                      [NoAcquire EXCEPT !.token = inflight.token,
                                        !.source = inflight.source],
                      NoFetch, FALSE, response, o)
  /\ UNCHANGED <<unit, now, accessToken, tokenExpiresAt, retryVars, flowVars>>

\* time passes
Tick ==
  /\ now + TickStep <= MaxTime
  /\ now' = now + TickStep
  /\ UNCHANGED <<unit, credVars, refused, ev, inflight, retryVars, flowVars>>

NoEvent ==
  [op |-> None, step |-> None, interactive |-> FALSE,
   held |-> FALSE, expired |-> FALSE, changed |-> FALSE,
   source |-> None, token |-> None, same |-> FALSE, fetched |-> FALSE,
   cleared |-> FALSE, fetch |-> NoFetch, sent |-> FALSE,
   sentRefused |-> FALSE, response |-> NoResponse, threw |-> FALSE,
   error |-> None, result |-> None]

\* analyzeMessages has not returned
NoAnalysis ==
  [senders |-> <<>>,
   stats |-> [totalEmails |-> 0, unreadEmails |-> 0, totalSenders |-> 0,
              newsletterSenders |-> 0]]

\* JS values of different types: undefined, true, a number
JsUndefined == [type |-> "undefined", num |-> 0]
JsTrue == [type |-> "boolean", num |-> 1]
JsNumber(n) == [type |-> "number", num |-> n]

\* sendResponse was not called
NoReply == [sent |-> FALSE, success |-> FALSE, error |-> None, count |-> JsUndefined]

\* the scripts as loaded: no token cached, nothing running, nothing analysed
\* the white-list calls that may overlap, and a call not made yet
WhitelistCalls == 1..MaxOverlap
NoWhitelistCall == [pc |-> "idle", op |-> None, email |-> Null, whitelist |-> {}]

\* chrome.storage.local before anything was stored
NoStorage == [has |-> FALSE, emailAnalysis |-> NoAnalysis, lastUpdated |-> NullTime]

InitProgram ==
  /\ now = 0
  /\ accessToken = Null
  /\ tokenExpiresAt = NullTime
  /\ apiAccessToken = Null
  /\ apiTokenExpiresAt = NullTime
  /\ refused = "never"
  /\ ev = NoEvent
  /\ inflight = NoCall
  /\ rPc = "idle"
  /\ rI = 0
  /\ rMaxRetries = 0
  /\ rLastError = Empty
  /\ rResult = None
  /\ rTrace = <<>>
  /\ aPc = "idle"
  /\ aResult = NoAnalysis
  /\ sOp = None
  /\ sPc = "idle"
  /\ maxResults = 0
  /\ messageIds = <<>>
  /\ pageToken = 0
  /\ sPages = 0
  /\ sI = 0
  /\ messages = <<>>
  /\ sFails = 0
  /\ sLog = <<>>
  /\ sError = None
  /\ dEmail = Null
  /\ dResult = JsUndefined
  /\ dReply = NoReply
  /\ whitelist = {}
  /\ uiPc = "idle"
  /\ uiEmail = Null
  /\ uiSent = <<>>
  /\ dCached = NoStorage
  /\ oPc = [delete |-> "idle", sync |-> "idle"]
  /\ oLog = <<>>
  /\ replies = 0
  /\ actionHistory = <<>>
  /\ history = <<>>
  /\ hPc = "idle"
  /\ hCalls = 0
  /\ wCalls = [c \in WhitelistCalls |-> NoWhitelistCall]

Init ==
  /\ unit \in {"background", "GmailAPI"}
  /\ aMessages = <<>>
  /\ storage = NoStorage
  /\ storedWhitelist = {}
  /\ InitProgram

---------------------------------------------------------------------------
(* GmailAPI.retryWithBackoff(fn, maxRetries), one step per await *)

\* String.prototype.includes: needle occurs in message as a substring
Includes(message, needle) ==
  \E k \in 1..(Len(message) - Len(needle) + 1) :
    SubSeq(message, k, k + Len(needle) - 1) = needle

\* error.message.includes('авторизации')
IncludesAvtorizatsii(message) == Includes(message, "avtorizatsii")
\* error.message.includes('прав доступа')
IncludesPravDostupa(message) == Includes(message, "prav dostupa")

\* the `if` that rethrows at once
NotRetried(message) == IncludesAvtorizatsii(message) \/ IncludesPravDostupa(message)

\* what fn() may throw: the failures of GmailAPI.request
FnErrors ==
  {MsgReauth, MsgForbiddenApi, MsgRateLimit, MsgUnavailable, MsgSyntaxError,
   MsgNoToken, "Backend Error"} \cup ChromeErrors
FnOutcomes ==
  [kind : {"throw"}, message : FnErrors] \cup [kind : {"return"}, message : {None}]

RECURSIVE Pow2(_)
\* Math.pow(2, i)
Pow2(i) == IF i = 0 THEN 1 ELSE 2 * Pow2(i - 1)

\* Math.pow(2, i) * 1000
BackoffDelay(i) == Pow2(i) * 1000

\* `lastError = error` in the catch block, first-error-wins variant
CatchError_KeepsFirst(lastError, error) ==
  IF lastError = Empty THEN error ELSE lastError
\* `lastError = error` in the catch block
CatchError(lastError, error) == error

\* the loop test `i < maxRetries`; when it fails, `throw lastError`
LoopHead(i, maxRetries) == IF i < maxRetries THEN "call" ELSE "thrown"

\* retryWithBackoff(fn, maxRetries) is called
retryWithBackoff(maxRetries) ==
  /\ rPc = "idle"
  /\ rMaxRetries' = maxRetries
  /\ rI' = 0
  /\ rLastError' = Empty
  /\ rTrace' = <<>>
  /\ rPc' = LoopHead(0, maxRetries)
  /\ rResult' = IF LoopHead(0, maxRetries) = "thrown" THEN Empty ELSE None
  /\ UNCHANGED <<unit, now, credVars, refused, ev, inflight, flowVars>>

\* `return await fn()` and the catch block up to the await of sleep(delay)
retryAttempt(outcome) ==
  /\ rPc = "call"
  /\ IF outcome.kind = "return"
     THEN /\ rPc' = "returned"
          /\ rResult' = "value"
          /\ rTrace' = Append(rTrace, [what |-> "attempt", outcome |-> "value", ms |-> 0])
          /\ UNCHANGED rLastError
     ELSE /\ rLastError' = CatchError(rLastError, outcome.message)
          /\ IF NotRetried(outcome.message)
             THEN /\ rPc' = "thrown"
                  /\ rResult' = outcome.message
                  /\ rTrace' = Append(rTrace, [what |-> "attempt",
                                               outcome |-> outcome.message, ms |-> 0])
             ELSE /\ rPc' = "sleep"
                  /\ rResult' = None
                  /\ rTrace' = rTrace \o
                       <<[what |-> "attempt", outcome |-> outcome.message, ms |-> 0],
                         [what |-> "sleep", outcome |-> None, ms |-> BackoffDelay(rI)]>>
  /\ UNCHANGED <<unit, now, credVars, refused, ev, inflight, flowVars, rI, rMaxRetries>>

\* sleep(delay) is over: i++ and the loop test
retryWake ==
  /\ rPc = "sleep"
  /\ rI' = rI + 1
  /\ rPc' = LoopHead(rI + 1, rMaxRetries)
  /\ rResult' = IF LoopHead(rI + 1, rMaxRetries) = "thrown" THEN rLastError ELSE None
  /\ UNCHANGED <<unit, now, credVars, refused, ev, inflight, flowVars, rMaxRetries, rLastError,
                 rTrace>>

RetryNext ==
  \/ \E m \in 0..MaxMaxRetries : retryWithBackoff(m)
  \/ \E o \in FnOutcomes : retryAttempt(o)
  \/ retryWake

SpecRetry == Init /\ [][RetryNext]_vars

Next ==
  \/ \E f \in FetchOutcomes : checkAuthentication(f)
  \/ \E f \in FetchOutcomes : authenticate(f)
  \/ \E f \in FetchOutcomes : gmailApiRequest(f)
  \/ \E r \in Responses : gmailApiResponse(r)
  \/ \E i \in BOOLEAN, f \in FetchOutcomes : ApiAcquire(i, f)
  \/ \E f \in FetchOutcomes : ApiRequest(f)
  \/ \E r \in Responses : ApiResponse(r)
  \/ Tick

Spec == Init /\ [][Next]_vars

---------------------------------------------------------------------------
(* Sender aggregation: analyzeMessages of background.js and of EmailParser *)

\* a message summary: id, whether it has a payload, whether labelIds has
\* UNREAD, and the values of its From, List-Unsubscribe, List-Id, List-Post
\* and Precedence headers (Empty when the header is absent)
FromValues ==
  {Empty, "no address", "Shop <News@Shop.com>", "news@shop.com ", "Bob <bob@x.org>"}
UnsubValues ==
  {Empty, "<https://a.example/u>", "<mailto:u@b.example>, <https://b.example/u>"}
\* the summaries without List-Id, List-Post and Precedence
Plain(S) ==
  {[payload |-> m.payload, unread |-> m.unread, from |-> m.from, unsub |-> m.unsub,
    listId |-> Empty, listPost |-> Empty, precedence |-> Empty] : m \in S}
Summaries ==
  Plain([payload : {TRUE}, unread : BOOLEAN, from : FromValues, unsub : UnsubValues]
          \cup [payload : {FALSE}, unread : BOOLEAN, from : {Empty}, unsub : {Empty}])
\* summaries of two senders with every combination of the headers of bulk mail
PrecedenceValues == {Empty, "bulk", "Bulk", "list"}
ListedSummaries ==
  [payload : {TRUE}, unread : {FALSE}, from : {"Shop <News@Shop.com>", "Bob <bob@x.org>"},
   unsub : {Empty, "<https://a.example/u>"}, listId : {Empty, "<news.shop.com>"},
   listPost : {Empty, "<mailto:post@shop.com>"}, precedence : PrecedenceValues]

\* the character of s at position k
Char(s, k) == SubSeq(s, k, k)
\* the least element of a non-empty set of numbers
Least(S) == CHOOSE x \in S : \A y \in S : x <= y
\* JS truthiness of a string: not null, not undefined, not empty
TruthyString(s) == Truthy(s) /\ s # ""

UpperLetters == "ABCDEFGHIJKLMNOPQRSTUVWXYZ"
LowerLetters == "abcdefghijklmnopqrstuvwxyz"
LowerChar(c) ==
  IF \E k \in 1..Len(UpperLetters) : Char(UpperLetters, k) = c
  THEN Char(LowerLetters, CHOOSE k \in 1..Len(UpperLetters) : Char(UpperLetters, k) = c)
  ELSE c

RECURSIVE toLowerCase(_)
\* String.prototype.toLowerCase
toLowerCase(s) ==
  IF s = "" THEN "" ELSE LowerChar(Char(s, 1)) \o toLowerCase(SubSeq(s, 2, Len(s)))

RECURSIVE trim(_)
\* String.prototype.trim
trim(s) ==
  IF s = "" THEN s
  ELSE IF Char(s, 1) = " " THEN trim(SubSeq(s, 2, Len(s)))
  ELSE IF Char(s, Len(s)) = " " THEN trim(SubSeq(s, 1, Len(s) - 1))
  ELSE s

\* the positions where /<(.+?)>/ can start: a '<', one character at least, a '>'
AngleStarts(s) ==
  {p \in 1..Len(s) : Char(s, p) = "<" /\ \E q \in (p + 2)..Len(s) : Char(s, q) = ">"}
\* match[1] of fromString.match(/<(.+?)>/), Null when there is no match
MatchAngle(s) ==
  IF AngleStarts(s) = {} THEN Null
  ELSE LET p == Least(AngleStarts(s))
           q == Least({q \in (p + 2)..Len(s) : Char(s, q) = ">"})
       IN SubSeq(s, p + 1, q - 1)

\* background.js extractEmail(fromString)
extractEmail(fromString) ==
  IF MatchAngle(fromString) # Null THEN toLowerCase(MatchAngle(fromString))
  ELSE IF Includes(fromString, "@") THEN toLowerCase(trim(fromString))
  ELSE Null

\* EmailParser.extractEmail(fromString)
ParserExtractEmail(fromString) ==
  IF MatchAngle(fromString) # Null THEN trim(toLowerCase(MatchAngle(fromString)))
  ELSE IF Includes(fromString, "@") THEN toLowerCase(trim(fromString))
  ELSE Null

\* where the group of /^(.+?)\s*</ can end: white space only up to a '<'
NameEnds(s) ==
  {j \in 1..(Len(s) - 1) :
     \E p \in (j + 1)..Len(s) :
       Char(s, p) = "<" /\ \A k \in (j + 1)..(p - 1) : Char(s, k) = " "}
\* .replace(/^["']|["']$/g, '')
StripQuotes(s) ==
  LET a == IF s # "" /\ Char(s, 1) \in {"\"", "'"} THEN SubSeq(s, 2, Len(s)) ELSE s
  IN IF a # "" /\ Char(a, Len(a)) \in {"\"", "'"} THEN SubSeq(a, 1, Len(a) - 1) ELSE a
\* extractName(fromString), the same in both scripts
extractName(fromString) ==
  IF NameEnds(fromString) = {} THEN Null
  ELSE StripQuotes(trim(SubSeq(fromString, 1, Least(NameEnds(fromString)))))

\* s has `prefix` at position p
HasAt(s, p, prefix) ==
  p + Len(prefix) - 1 <= Len(s) /\ SubSeq(s, p, p + Len(prefix) - 1) = prefix
\* the positions where '<' prefix [^>]+ '>' matches
PrefixedStarts(s, prefix) ==
  {p \in 1..Len(s) :
     /\ HasAt(s, p, "<" \o prefix)
     /\ p + Len(prefix) + 1 <= Len(s)
     /\ Char(s, p + Len(prefix) + 1) # ">"
     /\ \E q \in (p + Len(prefix) + 2)..Len(s) : Char(s, q) = ">"}
\* what stands between the '<' of the leftmost match and the next '>'
Bracketed(s, prefix) ==
  LET p == Least(PrefixedStarts(s, prefix))
      q == Least({q \in (p + 1)..Len(s) : Char(s, q) = ">"})
  IN SubSeq(s, p + 1, q - 1)
\* match[1] of headerValue.match(/<(https?:\/\/[^>]+)>/), Null without a match
MatchHttp(s) ==
  LET starts == PrefixedStarts(s, "http://") \cup PrefixedStarts(s, "https://")
  IN IF starts = {} THEN Null
     ELSE IF Least(starts) \in PrefixedStarts(s, "https://")
          THEN Bracketed(SubSeq(s, Least(starts), Len(s)), "https://")
          ELSE Bracketed(SubSeq(s, Least(starts), Len(s)), "http://")

\* background.js extractUnsubscribeLink(headerValue)
extractUnsubscribeLink(headerValue) == MatchHttp(headerValue)

\* EmailParser.parseUnsubscribeHeader(headerValue): http first, then mailto
parseUnsubscribeHeader(headerValue) ==
  IF MatchHttp(headerValue) # Null THEN MatchHttp(headerValue)
  ELSE IF PrefixedStarts(headerValue, "mailto:") # {}
       THEN Bracketed(headerValue, "mailto:")
       ELSE Null

\* EmailParser.getHeader(message, headerName): null without payload
getHeader(message, value) == IF message.payload THEN value ELSE Null

\* EmailParser.isNewsletterMessage(message): the loop over newsletterHeaders
\* (List-Unsubscribe, List-Id, List-Post, Precedence), then the test of
\* Precedence against 'bulk'
isNewsletterMessage(message) ==
  LET precedence == getHeader(message, message.precedence)
  IN \/ \E value \in {message.unsub, message.listId, message.listPost,
                       message.precedence} :
          TruthyString(getHeader(message, value))
     \/ (TruthyString(precedence) /\ toLowerCase(precedence) = "bulk")

\* the entries of a List-Unsubscribe value, and the values made of up to
\* MaxUris of them, separated by ', '
Uris ==
  {"<https://a.example/u>", "<http://b.example/u>", "<mailto:u@b.example>",
   "<mailto:v@c.example>"}
RECURSIVE Join(_)
Join(uris) ==
  IF Len(uris) = 1 THEN uris[1] ELSE uris[1] \o ", " \o Join(Tail(uris))
UriLists == UNION {[1..n -> Uris] : n \in 1..MaxUris}
HeaderValues == {Join(uris) : uris \in UriLists}

\* the headers computed once for the values in use
EmailOf == [h \in (FromValues \cup {"Ann <ann@y.net>"}) \ {Empty} |-> extractEmail(h)]
ParserEmailOf == [h \in FromValues \ {Empty} |-> ParserExtractEmail(h)]
NameOf == [h \in (FromValues \cup {"Ann <ann@y.net>"}) \ {Empty} |-> extractName(h)]
LinkOf == [h \in (UnsubValues \cup HeaderValues) \ {Empty} |-> extractUnsubscribeLink(h)]
ParserLinkOf ==
  [h \in (UnsubValues \cup HeaderValues) \ {Empty} |-> parseUnsubscribeHeader(h)]

\* EmailParser.extractUnsubscribeLink(message)
ParserExtractUnsubscribeLink(message) ==
  IF TruthyString(message.unsub) THEN ParserLinkOf[message.unsub] ELSE Null

\* sendersMap is kept as the sequence of its values in insertion order
Position(sendersMap, email) ==
  IF \E k \in 1..Len(sendersMap) : sendersMap[k].email = email
  THEN CHOOSE k \in 1..Len(sendersMap) : sendersMap[k].email = email
  ELSE 0

\* `if (unsubscribeLink && !sender.unsubscribeLink)`, the last link winning
KeepLink_LastWins(current, unsubscribeLink) ==
  IF TruthyString(unsubscribeLink) THEN unsubscribeLink ELSE current
\* `if (unsubscribeLink && !sender.unsubscribeLink) sender.unsubscribeLink = ...`
KeepLink(current, unsubscribeLink) ==
  IF TruthyString(unsubscribeLink) /\ ~TruthyString(current)
  THEN unsubscribeLink ELSE current

\* `if (isUnread) sender.unreadCount++`, an unread message counting twice
CountUnread_Twice(unreadCount, isUnread) ==
  IF isUnread THEN unreadCount + 2 ELSE unreadCount
\* `if (isUnread) sender.unreadCount++`, a read message resetting the count
CountUnread_ResetOnRead(unreadCount, isUnread) ==
  IF isUnread THEN unreadCount + 1 ELSE 0
\* `if (isUnread) sender.unreadCount++`
CountUnread(unreadCount, isUnread) == IF isUnread THEN unreadCount + 1 ELSE unreadCount

\* the record of `email` after one more message: created when missing, then
\* counted (background.js 354-373, parser.js 46-67)
Upsert(sendersMap, fresh, message, isUnread, unsubscribeLink) ==
  LET at == Position(sendersMap, fresh.email)
      map == IF at = 0 THEN Append(sendersMap, fresh) ELSE sendersMap
      k == IF at = 0 THEN Len(map) ELSE at
  IN [map EXCEPT ![k].totalCount = @ + 1,
                 ![k].unreadCount = CountUnread(@, isUnread),
                 ![k].messageIds = Append(@, message.id),
                 ![k].unsubscribeLink = KeepLink(@, unsubscribeLink)]

\* `if (this.isNewsletterMessage(message)) sender.isNewsletter = true`
MarkNewsletter(sendersMap, email, message) ==
  [sendersMap EXCEPT ![Position(sendersMap, email)].isNewsletter =
     @ \/ isNewsletterMessage(message)]

\* one iteration of the loop of background.js analyzeMessages
analyzeStep(acc, message) ==
  LET isUnread == message.unread
      counted == [acc EXCEPT !.totalEmails = @ + 1,
                             !.unreadEmails = IF isUnread THEN @ + 1 ELSE @]
      fromHeader == IF message.payload THEN message.from ELSE Empty
      email == IF fromHeader = Empty THEN Null ELSE EmailOf[fromHeader]
      unsubscribeLink ==
        IF message.payload /\ message.unsub # Empty THEN LinkOf[message.unsub] ELSE Null
      fresh == [email |-> email, name |-> NameOf[fromHeader], totalCount |-> 0,
                unreadCount |-> 0, messageIds |-> <<>>,
                unsubscribeLink |-> unsubscribeLink]
  IN IF fromHeader = Empty THEN counted
     ELSE IF ~TruthyString(email) THEN counted
     ELSE [counted EXCEPT
             !.sendersMap = Upsert(@, fresh, message, isUnread, unsubscribeLink)]

\* one iteration of the loop of EmailParser.analyzeMessages
ParserAnalyzeStep(acc, message) ==
  LET isUnread == message.unread
      counted == [acc EXCEPT !.totalEmails = @ + 1,
                             !.unreadEmails = IF isUnread THEN @ + 1 ELSE @]
      fromHeader == message.from
      email == IF ~TruthyString(fromHeader) THEN Null ELSE ParserEmailOf[fromHeader]
      unsubscribeLink == ParserExtractUnsubscribeLink(message)
      fresh == [email |-> email,
                name |-> IF ~TruthyString(fromHeader) THEN Null ELSE NameOf[fromHeader],
                totalCount |-> 0, unreadCount |-> 0, messageIds |-> <<>>,
                unsubscribeLink |-> Null, isNewsletter |-> FALSE]
  IN IF ~message.payload THEN acc
     ELSE IF ~TruthyString(email) THEN counted
     ELSE [counted EXCEPT
             !.sendersMap =
               MarkNewsletter(Upsert(@, fresh, message, isUnread, unsubscribeLink),
                              email, message)]

\* the state of the loop before its first iteration
NoSenders == [sendersMap |-> <<>>, totalEmails |-> 0, unreadEmails |-> 0]

RECURSIVE Loop(_, _, _)
\* `for (const message of messages)`: the loop state after the first n messages
Loop(u, summaries, n) ==
  IF n = 0 THEN NoSenders
  ELSE IF u = "EmailParser"
       THEN ParserAnalyzeStep(Loop(u, summaries, n - 1), summaries[n])
       ELSE analyzeStep(Loop(u, summaries, n - 1), summaries[n])

RECURSIVE Insert_BeforeEquals(_, _)
\* a sender put into a list sorted by totalCount descending, before its equals
Insert_BeforeEquals(sorted, sender) ==
  IF sorted = <<>> THEN <<sender>>
  ELSE IF Head(sorted).totalCount > sender.totalCount
       THEN <<Head(sorted)>> \o Insert_BeforeEquals(Tail(sorted), sender)
       ELSE <<sender>> \o sorted

RECURSIVE Insert(_, _)
\* a sender put into a list sorted by totalCount descending, behind its equals
Insert(sorted, sender) ==
  IF sorted = <<>> THEN <<sender>>
  ELSE IF Head(sorted).totalCount >= sender.totalCount
       THEN <<Head(sorted)>> \o Insert(Tail(sorted), sender)
       ELSE <<sender>> \o sorted

RECURSIVE SortSenders(_, _)
\* Array.from(sendersMap.values()).sort((a, b) => b.totalCount - a.totalCount),
\* a stable sort: the first n senders sorted
SortSenders(senders, n) ==
  IF n = 0 THEN <<>> ELSE Insert(SortSenders(senders, n - 1), senders[n])

\* analyzeMessages(summaries) of script u: the loop, the sort, the statistics
analyzeMessages(u, summaries) ==
  LET end == Loop(u, summaries, Len(summaries))
      senders == SortSenders(end.sendersMap, Len(end.sendersMap))
  IN [senders |-> senders,
      stats |-> [totalEmails |-> end.totalEmails,
                 unreadEmails |-> end.unreadEmails,
                 totalSenders |-> Len(senders),
                 newsletterSenders |->
                   IF u = "EmailParser"
                   THEN Cardinality({k \in 1..Len(senders) : senders[k].isNewsletter})
                   ELSE 0]]

\* the list of summaries f, each given its position as id
WithIds(f) ==
  [k \in DOMAIN f |-> [id |-> k, payload |-> f[k].payload, unread |-> f[k].unread,
                       from |-> f[k].from, unsub |-> f[k].unsub,
                       listId |-> f[k].listId, listPost |-> f[k].listPost,
                       precedence |-> f[k].precedence]]

\* analyzeMessages is called on the list
Analyze ==
  /\ unit \in {"background", "EmailParser"}
  /\ aPc = "idle"
  /\ aPc' = "done"
  /\ aResult' = analyzeMessages(unit, aMessages)
  /\ UNCHANGED <<unit, now, credVars, refused, ev, inflight, retryVars, aMessages,
                 syncVars, deleteVars, uiVars, storeVars>>

InitAgg ==
  /\ unit \in {"background", "EmailParser"}
  /\ \E n \in 0..MaxMessages : \E f \in [1..n -> Summaries] : aMessages = WithIds(f)
  /\ storage = NoStorage
  /\ storedWhitelist = {}
  /\ InitProgram

AggNext == Analyze

SpecAgg == InitAgg /\ [][AggNext]_vars

\* EmailParser.analyzeMessages on summaries with the headers of bulk mail
InitListed ==
  /\ unit = "EmailParser"
  /\ \E n \in 0..MaxListed : \E f \in [1..n -> ListedSummaries] : aMessages = WithIds(f)
  /\ storage = NoStorage
  /\ storedWhitelist = {}
  /\ InitProgram

SpecListed == InitListed /\ [][AggNext]_vars

\* analyzeMessages on one message whose List-Unsubscribe value is any of
\* HeaderValues: its sender's unsubscribeLink is what the extractor returned
InitLinks ==
  /\ unit \in {"background", "EmailParser"}
  /\ \E h \in HeaderValues :
       aMessages = WithIds(<<[payload |-> TRUE, unread |-> FALSE,
                              from |-> "Bob <bob@x.org>", unsub |-> h, listId |-> Empty,
                              listPost |-> Empty, precedence |-> Empty]>>)
  /\ storage = NoStorage
  /\ storedWhitelist = {}
  /\ InitProgram

SpecLinks == InitLinks /\ [][AggNext]_vars

---------------------------------------------------------------------------
(* Synchronisation: listing (getAllMessageIds, GmailAPI.searchMessages),   *)
(* detail fetching (loadMessagesBatch, GmailAPI.batchGetMessages) and      *)
(* loadAndAnalyzeEmails. A call of the transport is one step: it returns   *)
(* data or throws one of the failures of the transport.                    *)

\* the state below the flows, which the flows leave alone
transportVars == <<now, credVars, refused, ev, inflight, retryVars>>

\* the smaller of two numbers
Min(a, b) == IF a <= b THEN a ELSE b

\* Math.min(BATCH_SIZE, ...) of getAllMessageIds, Math.min(100, ...) of searchMessages
PageSize(u) == IF u = "background" THEN BATCH_SIZE ELSE 100
\* the pause between two pages
ListDelay(u) == IF u = "background" THEN RATE_LIMIT_DELAY ELSE rateLimitDelay
\* const batchSize of loadMessagesBatch and of batchGetMessages
BatchSize(u) == IF u = "background" THEN 10 ELSE 50

\* the failures of a transport call that answer a 429 or a 5xx response: the
\* worker has no message of its own for 5xx
TransientErrors(u) ==
  IF u = "background" THEN {MsgRateLimit, HttpMsg(503)} ELSE {MsgRateLimit, MsgUnavailable}
\* the failures a listing call is given here
ListErrors(u) == TransientErrors(u) \cup {MsgReauth}

\* the failures a detail call is given here
GetErrors(u) == IF u = "background" THEN TransientErrors(u) ELSE {MsgRateLimit}

\* how many messages a page carries when `requested` were asked for: none,
\* one, as many as asked for, or one more
PageCount(size, requested) ==
  CASE size = "none" -> 0
    [] size = "one" -> 1
    [] size = "full" -> requested
    [] size = "over" -> requested + 1
\* what a listing call may return (a page of some size, with or without
\* nextPageToken) or throw
ListOutcomes ==
  [kind : {"page"}, size : {"none", "one", "full", "over"}, hasNext : BOOLEAN,
   message : {None}]
    \cup [kind : {"throw"}, size : {"none"}, hasNext : {FALSE},
          message : ListErrors("background") \cup ListErrors("GmailAPI")]
\* what a detail call may return or throw
GetOutcomes ==
  [kind : {"message"}, message : {None}]
    \cup [kind : {"throw"}, message : GetErrors("background") \cup GetErrors("GmailAPI")]

\* maxResults of the listings, and of loadAndAnalyzeEmails
Caps(u) == {0, 1, PageSize(u), PageSize(u) + 1, MaxCap}
SyncCaps == {1, MaxSyncCap}
\* the lengths of the id lists handed to the detail fetchers
IdCounts(u) == {0, 1, BatchSize(u), BatchSize(u) + 2, MaxBatches * BatchSize(u) + 1}

\* the message the provider holds under an id
Mailbox(id) ==
  [id |-> id, payload |-> TRUE, unread |-> id % 2 = 1,
   from |-> IF id % 3 = 0 THEN "Bob <bob@x.org>"
            ELSE IF id % 3 = 1 THEN "Shop <News@Shop.com>" ELSE "news@shop.com ",
   unsub |-> IF id % 4 = 0 THEN "<https://a.example/u>" ELSE Empty,
   listId |-> Empty, listPost |-> Empty, precedence |-> Empty]
\* the messages fetched, as the provider returned them
Details(ids) == [k \in 1..Len(ids) |-> Mailbox(ids[k])]

\* what the flow did, in order: requests, answers, pauses, progress reports
Entry(what, a, b, msg) == [what |-> what, a |-> a, b |-> b, msg |-> msg]
\* sendProgress(message, progress)
Progress(percent) == Entry("progress", percent, 0, None)
\* await sleep(ms)
Slept(ms) == Entry("sleep", ms, 0, None)
\* a listing request with maxResults and pageToken (0: none)
Listed(requested, token) == Entry("list", requested, token, None)
\* its answer: the number of messages and nextPageToken (0: none)
Page(count, next) == Entry("page", count, next, None)
\* a detail request, its answer, a chunk of detail requests
Get(id) == Entry("get", id, 0, None)
Got(id) == Entry("got", id, 0, None)
Chunk(first, count) == Entry("chunk", first, count, None)
\* a failure caught or propagated (id 0: of a listing call)
Failed(id, msg) == Entry("error", id, 0, msg)

\* maxResults of a listing request, always a full page
Requested_FullPage(u, max, collected) == PageSize(u)
\* maxResults of a listing request: Math.min(BATCH_SIZE, maxResults - messageIds.length)
Requested(u, max, collected) == Min(PageSize(u), max - collected)

\* the test of `while (messageIds.length < maxResults)` and the request of
\* the iteration
ListLoop(u, collected, max, token, log) ==
  IF collected < max
  THEN [pc |-> "list", log |-> Append(log, Listed(Requested(u, max, collected), token))]
  ELSE [pc |-> "listed", log |-> log]

\* messageIds.push(...data.messages.map(m => m.id)): the provider numbers its
\* messages in the order it lists them
PushPage(ids, count) == ids \o [k \in 1..count |-> Len(ids) + k]

\* `if (!data.nextPageToken || messageIds.length >= maxResults) break`
StopListing(next, collected, max) == next = 0 \/ collected >= max

\* what follows a page: the pause, after the last page too
AfterPage_Always(u, stop) == <<Slept(ListDelay(u))>>
\* what follows a page: nothing when the loop breaks, else
\* `await sleep(RATE_LIMIT_DELAY)`, `await this.sleep(this.rateLimitDelay)`
AfterPage(u, stop) == IF stop THEN <<>> ELSE <<Slept(ListDelay(u))>>

\* the progress report at the head of a batch of loadMessagesBatch
BatchProgress(total, i) ==
  LET totalBatches == (total + 9) \div 10
      currentBatch == (i \div 10) + 1
  IN Progress(30 + ((currentBatch * 50) \div totalBatches))

\* what the detail fetcher does at the head of the batch that starts behind
\* position i: the worker reports progress and asks for the first id, the
\* class asks for all ids of the chunk at once
BatchHead(u, ids, i) ==
  IF u = "background" THEN <<BatchProgress(Len(ids), i), Get(ids[i + 1])>>
  ELSE <<Chunk(ids[i + 1], Min(BatchSize(u), Len(ids) - i))>>

\* the first requests of the detail fetcher for ids
BeginDetails(u, ids, log) ==
  IF Len(ids) = 0 THEN [pc |-> "fetched", log |-> log]
  ELSE [pc |-> "get", log |-> log \o BatchHead(u, ids, 0)]

\* what follows the answer of a detail call: on success the worker pauses
\* 200 ms, on a failure whose message includes 'лимит' 2000 ms
Answered(u, ok, id, message) ==
  IF ok THEN <<Got(id)>> \o (IF u = "background" THEN <<Slept(200)>> ELSE <<>>)
  ELSE <<Failed(id, message)>> \o
       (IF u = "background" /\ Includes(message, "limit") THEN <<Slept(2000)>> ELSE <<>>)

\* the pause at the end of a batch: the worker's when another batch follows
\* (`i + batchSize < messageIds.length`), the class's when there is more than
\* one chunk (`chunks.length > 1`)
Paused(u, at, total) ==
  IF u = "background"
  THEN (IF at < total THEN <<Slept(RATE_LIMIT_DELAY)>> ELSE <<>>)
  ELSE (IF total > BatchSize(u) THEN <<Slept(rateLimitDelay)>> ELSE <<>>)

\* where the operation stands once its listing has returned ids
AfterListing(op, ids, log) ==
  IF op = "loadAndAnalyzeEmails"
  THEN BeginDetails("background", ids, Append(log, Progress(30)))
  ELSE [pc |-> "done", log |-> log]

\* whether a caught failure lets the item count as fetched all the same
CatchItem_KeepsItem(ok) == TRUE
\* try { ...; messages.push(message) } catch: the item is pushed on success only
CatchItem(ok) == ok

\* the step goes on from position pc with log: when the details are fetched,
\* loadAndAnalyzeEmails reports, analyses and starts to cache
Proceed(op, pc, log, fetched) ==
  IF pc = "fetched" /\ op = "loadAndAnalyzeEmails"
  THEN /\ sPc' = "cache"
       /\ sLog' = log \o <<Progress(80), Progress(95)>>
       /\ aMessages' = Details(fetched)
       /\ aResult' = analyzeMessages("background", Details(fetched))
       /\ aPc' = "done"
  ELSE /\ sPc' = IF pc = "fetched" THEN "done" ELSE pc
       /\ sLog' = log
       /\ UNCHANGED aggVars

\* the operation op starts with a listing up to max
EnterListing(op, max, log) ==
  LET head == ListLoop(unit, 0, max, 0, log)
      cont == IF head.pc = "listed" THEN AfterListing(op, <<>>, head.log) ELSE head
  IN /\ sPc = "idle"
     /\ sOp' = op
     /\ maxResults' = max
     /\ messageIds' = <<>>
     /\ pageToken' = 0
     /\ sPages' = 0
     /\ sI' = 0
     /\ messages' = <<>>
     /\ sFails' = 0
     /\ sError' = None
     /\ Proceed(op, cont.pc, cont.log, <<>>)
     /\ UNCHANGED <<unit, transportVars, storeVars, deleteVars, uiVars, storage>>

\* getAllMessageIds(maxResults) is called
getAllMessageIds(max) ==
  /\ unit = "background"
  /\ EnterListing("getAllMessageIds", max, <<>>)

\* GmailAPI.searchMessages(query, maxResults) is called
searchMessages(max) ==
  /\ unit = "GmailAPI"
  /\ EnterListing("searchMessages", max, <<>>)

\* loadAndAnalyzeEmails(maxResults) is called
loadAndAnalyzeEmails(max) ==
  /\ unit = "background"
  /\ EnterListing("loadAndAnalyzeEmails", max, <<Progress(10)>>)

\* a failure of a listing call ends the operation as if it had succeeded
Rethrow_Swallow(error) == [pc |-> "done", error |-> None]
\* getAllMessageIds and searchMessages have no catch, and the catch of
\* loadAndAnalyzeEmails ends in `throw error`: the operation fails with error
Rethrow(error) == [pc |-> "failed", error |-> error]

\* a listing call returns a page or throws
listResponse(outcome) ==
  /\ sPc = "list"
  /\ outcome.kind = "throw" => outcome.message \in ListErrors(unit)
  /\ outcome.hasNext => sPages + 1 < MaxPages
  /\ IF outcome.kind = "throw"
     THEN /\ sPc' = Rethrow(outcome.message).pc
          /\ sError' = Rethrow(outcome.message).error
          /\ sLog' = Append(sLog, Failed(0, outcome.message))
          /\ UNCHANGED <<messageIds, pageToken, sPages, sI, aggVars>>
     ELSE LET count == PageCount(outcome.size, sLog[Len(sLog)].a)
              next == IF outcome.hasNext THEN sPages + 2 ELSE 0
              ids == PushPage(messageIds, count)
              log == Append(sLog, Page(count, next))
              stop == StopListing(next, Len(ids), maxResults)
              head == IF stop THEN [pc |-> "listed", log |-> log \o AfterPage(unit, stop)]
                      ELSE ListLoop(unit, Len(ids), maxResults, next,
                                    log \o AfterPage(unit, stop))
              cont == IF head.pc = "listed" THEN AfterListing(sOp, ids, head.log)
                      ELSE head
          IN /\ messageIds' = ids
             /\ pageToken' = IF stop THEN pageToken ELSE next
             /\ sPages' = sPages + 1
             /\ sI' = IF cont.pc = "get" THEN 1 ELSE 0
             /\ Proceed(sOp, cont.pc, cont.log, <<>>)
             /\ UNCHANGED sError
  /\ UNCHANGED <<unit, transportVars, storeVars, deleteVars, uiVars, sOp, maxResults, messages, sFails, storage>>

\* the operation op starts with the detail fetching of ids 1..n
EnterDetails(op, n) ==
  LET ids == [k \in 1..n |-> k]
      cont == BeginDetails(unit, ids, <<>>)
  IN /\ sPc = "idle"
     /\ sOp' = op
     /\ maxResults' = 0
     /\ messageIds' = ids
     /\ pageToken' = 0
     /\ sPages' = 0
     /\ sI' = IF cont.pc = "get" THEN 1 ELSE 0
     /\ messages' = <<>>
     /\ sFails' = 0
     /\ sError' = None
     /\ Proceed(op, cont.pc, cont.log, <<>>)
     /\ UNCHANGED <<unit, transportVars, storeVars, deleteVars, uiVars, storage>>

\* loadMessagesBatch(messageIds) is called
loadMessagesBatch(n) ==
  /\ unit = "background"
  /\ EnterDetails("loadMessagesBatch", n)

\* GmailAPI.batchGetMessages(messageIds) is called
batchGetMessages(n) ==
  /\ unit = "GmailAPI"
  /\ EnterDetails("batchGetMessages", n)

\* the detail call of messageIds[sI] returns or throws (in batchGetMessages
\* the promises of a chunk are taken to settle in the order of the ids); what
\* follows it up to the next request: pauses, the next batch's head
getResponse(outcome) ==
  /\ sPc = "get"
  /\ outcome.kind = "throw" => sFails < MaxFailures /\ outcome.message \in GetErrors(unit)
  /\ LET id == messageIds[sI]
         total == Len(messageIds)
         ok == outcome.kind = "message"
         fetched == IF CatchItem(ok) THEN Append(messages, id) ELSE messages
         batchEnd == sI % BatchSize(unit) = 0 \/ sI = total
         log == sLog \o Answered(unit, ok, id, outcome.message)
                     \o (IF batchEnd THEN Paused(unit, sI, total) ELSE <<>>)
         cont == IF sI = total THEN [pc |-> "fetched", log |-> log]
                 ELSE IF batchEnd
                 THEN [pc |-> "get", log |-> log \o BatchHead(unit, messageIds, sI)]
                 ELSE IF unit = "background"
                 THEN [pc |-> "get", log |-> Append(log, Get(messageIds[sI + 1]))]
                 ELSE [pc |-> "get", log |-> log]
     IN /\ messages' = fetched
        /\ sI' = IF sI = total THEN sI ELSE sI + 1
        /\ sFails' = IF ok THEN sFails ELSE sFails + 1
        /\ Proceed(sOp, cont.pc, cont.log, fetched)
  /\ UNCHANGED <<unit, transportVars, storeVars, deleteVars, uiVars, sOp, maxResults, messageIds, pageToken, sPages,
                 sError, storage>>

\* cacheAnalysis(analysis): chrome.storage.local.set resolves or rejects (the
\* rejection is logged and dropped), then the last progress report
cacheAnalysis(stored) ==
  /\ sPc = "cache"
  /\ storage' = IF stored
                THEN [has |-> TRUE, emailAnalysis |-> aResult, lastUpdated |-> now]
                ELSE storage
  /\ sLog' = Append(sLog, Progress(100))
  /\ sPc' = "done"
  /\ UNCHANGED <<unit, transportVars, storeVars, deleteVars, uiVars, aggVars, sOp, maxResults, messageIds, pageToken,
                 sPages, sI, messages, sFails, sError>>

SyncNext ==
  \/ \E max \in Caps("background") : getAllMessageIds(max)
  \/ \E max \in Caps("GmailAPI") : searchMessages(max)
  \/ \E max \in SyncCaps : loadAndAnalyzeEmails(max)
  \/ \E o \in ListOutcomes : listResponse(o)
  \/ \E n \in IdCounts("background") : loadMessagesBatch(n)
  \/ \E n \in IdCounts("GmailAPI") : batchGetMessages(n)
  \/ \E o \in GetOutcomes : getResponse(o)
  \/ \E stored \in BOOLEAN : cacheAnalysis(stored)

SpecSync == Init /\ [][SyncNext]_vars

---------------------------------------------------------------------------
(* Deletion: deleteEmailsFromSender of the worker, called by the listener   *)
(* of the deleteEmails action, and GmailAPI.batchDelete.                    *)

\* 'Письма не найдены'
MsgNotFound == "Pis'ma ne naydeny"
\* 'Не указаны письма для удаления'
MsgNoIds == "Ne ukazany pis'ma dlya udaleniya"
\* the message of a rejected chrome.storage.local call
MsgStorage == "QUOTA_BYTES quota exceeded"

\* a summary with a From header only
From(fromHeader, isUnread) ==
  [payload |-> TRUE, unread |-> isUnread, from |-> fromHeader, unsub |-> Empty,
   listId |-> Empty, listPost |-> Empty, precedence |-> Empty]
\* the messages of an earlier synchronisation: three senders and a message
\* without sender
Inbox ==
  WithIds(<<From("Shop <News@Shop.com>", TRUE), From("Bob <bob@x.org>", FALSE),
            From("news@shop.com ", FALSE), From("Ann <ann@y.net>", TRUE),
            From("no address", FALSE), From("Bob <bob@x.org>", TRUE),
            From("Shop <News@Shop.com>", FALSE)>>)
\* what that synchronisation left in chrome.storage.local
Synced ==
  [has |-> TRUE, emailAnalysis |-> analyzeMessages("background", Inbox),
   lastUpdated |-> TickStep]
\* the senders deleteEmails is asked to delete: those of the cache, and another
DeleteEmails == {"news@shop.com", "bob@x.org", "ann@y.net", "other@z.io"}

\* a batchDelete request for `batch`: its first id and its length (the ids of
\* a batch are consecutive)
Deleting(batch) ==
  Entry("delete", IF batch = <<>> THEN 0 ELSE batch[1], Len(batch), None)

\* the test of the list before the first request, never true
NothingFound_Never(ids) == FALSE
\* `if (allMessageIds.length === 0)`, `if (!messageIds || messageIds.length === 0)`
NothingFound(ids) == Len(ids) = 0

\* allMessageIds.slice(i, i + batchSize), a chunk of chunkArray(messageIds, 1000)
Slice(ids, i) == SubSeq(ids, i + 1, Min(i + DeleteBatchSize, Len(ids)))

\* sendProgress after the batch that starts behind position i:
\* 50 + Math.floor((i / allMessageIds.length) * 45)
DeleteProgress(i, total) == Progress(50 + ((i * 45) \div total))

\* the response of the deleteEmails listener to a rejection:
\* sendResponse({ success: false, error: error.message })
ReplyError(message) ==
  [sent |-> TRUE, success |-> FALSE, error |-> message, count |-> JsUndefined]
\* and to a fulfilment: sendResponse({ success: true }), the value dropped
ReplySuccess(value) ==
  [sent |-> TRUE, success |-> TRUE, error |-> None, count |-> JsUndefined]
\* `return true` of deleteEmailsFromSender
Returned(count) == JsTrue

\* the operation ends with `error` thrown, and the cache is rewritten all the same
Throws_Patched(error) ==
  /\ sPc' = "failed"
  /\ sError' = error
  /\ sLog' = Append(sLog, Failed(0, error))
  /\ dReply' = IF unit = "background" THEN ReplyError(error) ELSE dReply
  /\ storage' = IF storage.has
                THEN [storage EXCEPT !.emailAnalysis =
                        [senders |-> SelectSeq(@.senders, LAMBDA s : s.email # dEmail),
                         stats |-> @.stats]]
                ELSE storage
  /\ UNCHANGED dResult
\* the operation ends with `error` thrown: the catch of deleteEmailsFromSender
\* rethrows it to the listener, batchDelete has no catch and no listener
Throws(error) ==
  /\ sPc' = "failed"
  /\ sError' = error
  /\ sLog' = Append(sLog, Failed(0, error))
  /\ dReply' = IF unit = "background" THEN ReplyError(error) ELSE dReply
  /\ UNCHANGED <<dResult, storage>>

\* the deleteEmails listener calls deleteEmailsFromSender(request.email): the
\* first progress report and the first page requested
deleteEmailsFromSender(email) ==
  /\ unit = "background"
  /\ sPc = "idle"
  /\ sOp' = "deleteEmailsFromSender"
  /\ dEmail' = email
  /\ sPc' = "dlist"
  /\ sLog' = <<Progress(10), Listed(DeletePageSize, 0)>>
  /\ UNCHANGED <<unit, transportVars, storeVars, aggVars, uiVars, maxResults, messageIds, pageToken,
                 sPages, sI, messages, sFails, sError, storage, dResult, dReply>>

\* the first batch is requested, after the progress report of the worker
BeginDeleting(u, ids, log) ==
  (IF u = "background" THEN Append(log, Progress(50)) ELSE log)
    \o <<Deleting(Slice(ids, 0))>>

\* a page of the enumeration returns or throws; after the last page the
\* length test, and the first batchDelete request
deleteListResponse(outcome) ==
  /\ sPc = "dlist"
  /\ outcome.kind = "throw" => outcome.message \in ListErrors(unit)
  /\ outcome.hasNext => sPages + 1 < MaxPages
  /\ IF outcome.kind = "throw"
     THEN /\ Throws(outcome.message)
          /\ UNCHANGED <<messageIds, pageToken, sPages>>
     ELSE LET present == outcome.size # "none"
              count == PageCount(outcome.size, DeletePageSize)
              next == IF outcome.hasNext THEN sPages + 2 ELSE 0
              ids == IF present THEN PushPage(messageIds, count) ELSE messageIds
              log == Append(sLog, Page(count, next))
                       \o (IF present THEN <<Progress(30)>> ELSE <<>>)
          IN /\ messageIds' = ids
             /\ pageToken' = next
             /\ sPages' = sPages + 1
             /\ IF next # 0
                THEN /\ sLog' = log \o <<Slept(RATE_LIMIT_DELAY), Listed(DeletePageSize, next)>>
                     /\ UNCHANGED <<sPc, sError, dReply, dResult, storage>>
                ELSE IF NothingFound(ids)
                THEN /\ sPc' = "failed"
                     /\ sError' = MsgNotFound
                     /\ sLog' = Append(log, Failed(0, MsgNotFound))
                     /\ dReply' = ReplyError(MsgNotFound)
                     /\ UNCHANGED <<dResult, storage>>
                ELSE /\ sPc' = "ddelete"
                     /\ sLog' = BeginDeleting(unit, ids, log)
                     /\ UNCHANGED <<sError, dReply, dResult, storage>>
  /\ UNCHANGED <<unit, transportVars, storeVars, aggVars, uiVars, sOp, maxResults, sI, messages,
                 sFails, dEmail>>

\* GmailAPI.batchDelete(messageIds) is called with n ids
batchDelete(n) ==
  LET ids == [k \in 1..n |-> k]
  IN /\ unit = "GmailAPI"
     /\ sPc = "idle"
     /\ sOp' = "batchDelete"
     /\ messageIds' = ids
     /\ IF NothingFound(ids)
        THEN /\ sPc' = "failed"
             /\ sError' = MsgNoIds
             /\ sLog' = <<Failed(0, MsgNoIds)>>
        ELSE /\ sPc' = "ddelete"
             /\ sError' = None
             /\ sLog' = BeginDeleting(unit, ids, <<>>)
     /\ UNCHANGED <<unit, transportVars, storeVars, aggVars, uiVars, maxResults, pageToken, sPages,
                    sI, messages, sFails, storage, deleteVars>>

\* what a batchDelete request may return or throw
DeleteOutcomes ==
  [kind : {"ok"}, message : {None}]
    \cup [kind : {"throw"},
          message : TransientErrors("background") \cup TransientErrors("GmailAPI")]

\* the pause behind a batch that starts behind position i: the worker's when
\* another batch follows (`i + batchSize < allMessageIds.length`), the class's
\* when there is more than one chunk (`chunks.length > 1`)
DeletePause(u, i, total) ==
  IF u = "background"
  THEN (IF i + DeleteBatchSize < total THEN <<Slept(RATE_LIMIT_DELAY)>> ELSE <<>>)
  ELSE (IF total > DeleteBatchSize THEN <<Slept(rateLimitDelay)>> ELSE <<>>)

\* a batchDelete request returns or throws; then the progress report, the
\* pause and the next request, or the end of the loop
deleteResponse(outcome) ==
  /\ sPc = "ddelete"
  /\ outcome.kind = "throw" => outcome.message \in TransientErrors(unit)
  /\ IF outcome.kind = "throw"
     THEN /\ Throws(outcome.message)
          /\ UNCHANGED sI
     ELSE LET total == Len(messageIds)
              more == sI + DeleteBatchSize < total
              log == sLog \o (IF unit = "background"
                              THEN <<DeleteProgress(sI, total)>> ELSE <<>>)
                          \o DeletePause(unit, sI, total)
          IN /\ sI' = IF more THEN sI + DeleteBatchSize ELSE sI
             /\ sLog' = IF more THEN Append(log, Deleting(Slice(messageIds, sI + DeleteBatchSize)))
                        ELSE IF unit = "background" THEN Append(log, Progress(100))
                        ELSE log
             /\ sPc' = IF more THEN "ddelete"
                       ELSE IF unit = "background" THEN "dcache" ELSE "done"
             /\ UNCHANGED <<sError, dReply, dResult, storage>>
  /\ UNCHANGED <<unit, transportVars, storeVars, aggVars, uiVars, sOp, maxResults, messageIds,
                 pageToken, sPages, messages, sFails, dEmail>>

\* the senders with none filtered out
WithoutSender_KeepsAll(senders, email) == senders
\* senders.filter(s => s.email !== email)
WithoutSender(senders, email) ==
  LET Other(s) == s.email # email IN SelectSeq(senders, Other)

\* the statistics after the sender found was taken off, none taken off
LessSender_KeepsStats(stats, sender) == stats
\* stats.totalEmails -= sender.totalCount; stats.unreadEmails -=
\* sender.unreadCount; stats.totalSenders--
LessSender(stats, sender) ==
  [stats EXCEPT !.totalEmails = @ - sender.totalCount,
                !.unreadEmails = @ - sender.unreadCount,
                !.totalSenders = @ - 1]

\* the cached analysis as deleteEmailsFromSender rewrites it (501-511)
ForgetSender(analysis, email) ==
  LET at == Position(analysis.senders, email)
  IN [senders |-> WithoutSender(analysis.senders, email),
      stats |-> IF at # 0 THEN LessSender(analysis.stats, analysis.senders[at])
                ELSE analysis.stats]

\* the update of the cache behind the last progress report: storage.get, and
\* storage.set when there is an emailAnalysis, resolve (stored) or one of them
\* rejects; then `return true`, to which the listener responds
updateCache(stored) ==
  /\ sPc = "dcache"
  /\ IF stored
     THEN /\ storage' = IF storage.has
                        THEN [storage EXCEPT
                                !.emailAnalysis = ForgetSender(@, dEmail)]
                        ELSE storage
          /\ sPc' = "done"
          /\ dResult' = Returned(Len(messageIds))
          /\ dReply' = ReplySuccess(Returned(Len(messageIds)))
          /\ UNCHANGED <<sError, sLog>>
     ELSE Throws(MsgStorage)
  /\ UNCHANGED <<unit, transportVars, storeVars, aggVars, uiVars, sOp, maxResults, messageIds,
                 pageToken, sPages, sI, messages, sFails, dEmail>>

\* the lengths of the id lists handed to batchDelete
DeleteCounts ==
  {0, 1, DeleteBatchSize, DeleteBatchSize + 1, (MaxChunks - 1) * DeleteBatchSize + 1}

InitDelete ==
  /\ unit \in {"background", "GmailAPI"}
  /\ aMessages = <<>>
  /\ storage \in {NoStorage, Synced}
  /\ storedWhitelist = {}
  /\ InitProgram

DeleteNext ==
  \/ \E email \in DeleteEmails : deleteEmailsFromSender(email)
  \/ \E o \in ListOutcomes : deleteListResponse(o)
  \/ \E n \in DeleteCounts : batchDelete(n)
  \/ \E o \in DeleteOutcomes : deleteResponse(o)
  \/ \E stored \in BOOLEAN : updateCache(stored)

SpecDelete == InitDelete /\ [][DeleteNext]_vars

---------------------------------------------------------------------------
(* The popup: PopupController's white list and its delete button. The       *)
(* senders shown are fixed; a dialog that is open takes all clicks.         *)

\* the e-mails of this.senders, as analyzeMessages keyed them
SenderKeys == {"news@shop.com", "bob@x.org"}
\* what the user may have typed into the white-list input
InputValues == {"News@Shop.com", "news@shop.com", " bob@x.org ", "ann", ""}

\* saveWhitelist(): chrome.storage.local.set resolves, or rejects and the
\* rejection is logged and dropped
saveWhitelist(saved, set) == IF saved THEN set ELSE storedWhitelist

\* `this.whitelist.add(email)`: the e-mail as typed
InputKey(email) == email

\* toggleWhitelist(email): the button of a sender card
toggleWhitelist(email, saved) ==
  /\ uiPc = "idle"
  /\ whitelist' = IF email \in whitelist THEN whitelist \ {email}
                  ELSE whitelist \cup {email}
  /\ storedWhitelist' = saveWhitelist(saved, whitelist')
  /\ UNCHANGED <<unit, transportVars, storeVars, aggVars, syncVars, deleteVars, uiPc, uiEmail, uiSent>>

\* addToWhitelist(): the button and the Enter key of the settings input
addToWhitelist(value, saved) ==
  LET email == trim(value)
  IN /\ uiPc = "idle"
     /\ IF email = "" \/ ~Includes(email, "@")
        THEN UNCHANGED <<whitelist, storedWhitelist>>
        ELSE /\ whitelist' = whitelist \cup {InputKey(email)}
             /\ storedWhitelist' = saveWhitelist(saved, whitelist')
     /\ UNCHANGED <<unit, transportVars, storeVars, aggVars, syncVars, deleteVars, uiPc, uiEmail,
                    uiSent>>

\* the remove button of an entry of the rendered white list
removeEntry(email, saved) ==
  /\ uiPc = "idle"
  /\ email \in whitelist
  /\ whitelist' = whitelist \ {email}
  /\ storedWhitelist' = saveWhitelist(saved, whitelist')
  /\ UNCHANGED <<unit, transportVars, storeVars, aggVars, syncVars, deleteVars, uiPc, uiEmail, uiSent>>

\* loadWhitelist(), when the popup is opened or the user has signed in:
\* storage.get resolves, or rejects and the set stays
loadWhitelist(loaded) ==
  /\ uiPc = "idle"
  /\ whitelist' = IF loaded THEN storedWhitelist ELSE whitelist
  /\ UNCHANGED <<unit, transportVars, storeVars, aggVars, syncVars, deleteVars, storedWhitelist, uiPc,
                 uiEmail, uiSent>>

\* the e-mail is on the white list, letter case apart
Protected(email) == \E entry \in whitelist : toLowerCase(entry) = toLowerCase(email)

\* handleDelete(email) up to `await this.showModal(...)`: the guard, then the
\* confirmation dialog
handleDelete(email) ==
  /\ uiPc = "idle"
  /\ Len(uiSent) < MaxClicks
  /\ IF email \in whitelist
     THEN UNCHANGED <<uiPc, uiEmail>>
     ELSE uiPc' = "confirm" /\ uiEmail' = email
  /\ UNCHANGED <<unit, transportVars, storeVars, aggVars, syncVars, deleteVars, whitelist,
                 storedWhitelist, uiSent>>

\* the dialog is answered: when confirmed, the deleteEmails request is sent
modalAnswer(confirmed) ==
  /\ uiPc = "confirm"
  /\ uiPc' = "idle"
  /\ uiEmail' = Null
  /\ uiSent' = IF confirmed
               THEN Append(uiSent, [email |-> uiEmail, protected |-> Protected(uiEmail)])
               ELSE uiSent
  /\ UNCHANGED <<unit, transportVars, storeVars, aggVars, syncVars, deleteVars, whitelist,
                 storedWhitelist>>

InitPopup ==
  /\ unit = "popup"
  /\ aMessages = <<>>
  /\ storage = NoStorage
  /\ storedWhitelist = {}
  /\ InitProgram

PopupNext ==
  \/ \E email \in SenderKeys, saved \in BOOLEAN : toggleWhitelist(email, saved)
  \/ \E value \in InputValues, saved \in BOOLEAN : addToWhitelist(value, saved)
  \/ \E email \in {trim(v) : v \in InputValues}, saved \in BOOLEAN : removeEntry(email, saved)
  \/ \E loaded \in BOOLEAN : loadWhitelist(loaded)
  \/ \E email \in SenderKeys : handleDelete(email)
  \/ \E confirmed \in BOOLEAN : modalAnswer(confirmed)

SpecPopup == InitPopup /\ [][PopupNext]_vars

---------------------------------------------------------------------------
(* A deletion and a synchronisation that overlap in the worker: the cache   *)
(* update that ends deleteEmailsFromSender and the cacheAnalysis that ends  *)
(* loadAndAnalyzeEmails, step by step between their awaits.                 *)

\* the messages the overlapping synchronisation has analysed
FreshSummaries ==
  {From("Bob <bob@x.org>", TRUE), From("news@shop.com ", FALSE),
   From("Ann <ann@y.net>", FALSE)}
FreshInboxes == UNION {[1..n -> FreshSummaries] : n \in 1..MaxFresh}

\* a read or a write of emailAnalysis by one of the two operations
Touched(by, op) == [by |-> by, op |-> op]

\* `const cached = await chrome.storage.local.get(['emailAnalysis'])` of the
\* deletion of email resolves (got) or rejects; the copy is rewritten when it
\* holds an emailAnalysis, and storage.set is called with it
cacheGet(email, got) ==
  /\ unit = "background"
  /\ oPc.delete = "idle"
  /\ dEmail' = email
  /\ IF got
     THEN /\ dCached' = IF storage.has
                        THEN [storage EXCEPT !.emailAnalysis = ForgetSender(@, email)]
                        ELSE storage
          /\ oPc' = [oPc EXCEPT !.delete = IF storage.has THEN "set" ELSE "done"]
          /\ oLog' = Append(oLog, Touched("delete", "get"))
     ELSE /\ oPc' = [oPc EXCEPT !.delete = "failed"]
          /\ UNCHANGED <<dCached, oLog>>
  /\ UNCHANGED <<unit, transportVars, aggVars, syncVars, uiVars, dResult, dReply, replies, managerVars>>

\* `await chrome.storage.local.set({ emailAnalysis: cached.emailAnalysis })`
\* resolves (stored) or rejects: the key emailAnalysis alone is written
cacheSet(stored) ==
  /\ oPc.delete = "set"
  /\ IF stored
     THEN /\ storage' = [storage EXCEPT !.emailAnalysis = dCached.emailAnalysis]
          /\ oPc' = [oPc EXCEPT !.delete = "done"]
          /\ oLog' = Append(oLog, Touched("delete", "set"))
     ELSE /\ oPc' = [oPc EXCEPT !.delete = "failed"]
          /\ UNCHANGED <<storage, oLog>>
  /\ UNCHANGED <<unit, transportVars, aggVars, uiVars, deleteVars, dCached, replies, managerVars, sOp, sPc,
                 maxResults, messageIds, pageToken, sPages, sI, messages, sFails,
                 sLog, sError>>

\* cacheAnalysis(analysis) of a synchronisation that analysed f: its
\* storage.set resolves (stored) or rejects, and the rejection is dropped
syncCaches(f, stored) ==
  /\ unit = "background"
  /\ oPc.sync = "idle"
  /\ oPc' = [oPc EXCEPT !.sync = "done"]
  /\ IF stored
     THEN /\ storage' = [has |-> TRUE,
                         emailAnalysis |-> analyzeMessages("background", WithIds(f)),
                         lastUpdated |-> now]
          /\ oLog' = Append(oLog, Touched("sync", "set"))
     ELSE UNCHANGED <<storage, oLog>>
  /\ UNCHANGED <<unit, transportVars, aggVars, uiVars, deleteVars, dCached, replies, managerVars, sOp, sPc,
                 maxResults, messageIds, pageToken, sPages, sI, messages, sFails,
                 sLog, sError>>

InitOverlap ==
  /\ unit = "background"
  /\ aMessages = <<>>
  /\ storage \in {NoStorage, Synced}
  /\ storedWhitelist = {}
  /\ InitProgram

OverlapNext ==
  \/ \E email \in DeleteEmails, got \in BOOLEAN : cacheGet(email, got)
  \/ \E stored \in BOOLEAN : cacheSet(stored)
  \/ \E f \in FreshInboxes, stored \in BOOLEAN : syncCaches(f, stored)

SpecOverlap == InitOverlap /\ [][OverlapNext]_vars

---------------------------------------------------------------------------
(* Synchronisations and deletions one after the other, each of them         *)
(* succeeding: what they leave in the cache.                                *)

\* the messages a synchronisation lists: two senders, one of them written in
\* two ways, and messages without an address
SerialSummaries ==
  {From("Shop <News@Shop.com>", TRUE), From("news@shop.com ", FALSE),
   From("Bob <bob@x.org>", TRUE), From("Bob <bob@x.org>", FALSE),
   From("no address", TRUE), From("no address", FALSE)}
SerialInboxes == UNION {[1..n -> SerialSummaries] : n \in 0..MaxSerial}

\* loadAndAnalyzeEmails runs to its end on the messages f: analyzeMessages,
\* then cacheAnalysis, whose storage.set resolves (stored) or rejects
syncOnce(f, stored) ==
  /\ unit = "background"
  /\ Len(oLog) < MaxOps
  /\ storage' = IF stored
                THEN [has |-> TRUE,
                      emailAnalysis |-> analyzeMessages("background", WithIds(f)),
                      lastUpdated |-> now]
                ELSE storage
  /\ oLog' = Append(oLog, Touched("sync", IF stored THEN "set" ELSE "none"))
  /\ UNCHANGED <<unit, transportVars, aggVars, uiVars, deleteVars, dCached, oPc, replies, managerVars, sOp,
                 sPc, maxResults, messageIds, pageToken, sPages, sI, messages, sFails,
                 sLog, sError>>

\* deleteEmailsFromSender(email) runs to its `return true`: the cache is read
\* and, when it holds an analysis, rewritten and stored
deleteOnce(email) ==
  /\ unit = "background"
  /\ Len(oLog) < MaxOps
  /\ dEmail' = email
  /\ dResult' = Returned(1)
  /\ dReply' = ReplySuccess(Returned(1))
  /\ dCached' = IF storage.has
                THEN [storage EXCEPT !.emailAnalysis = ForgetSender(@, email)]
                ELSE storage
  /\ storage' = dCached'
  /\ oLog' = Append(oLog, Touched("delete", IF storage.has THEN "set" ELSE "get"))
  /\ UNCHANGED <<unit, transportVars, aggVars, uiVars, oPc, replies, managerVars, sOp, sPc, maxResults,
                 messageIds, pageToken, sPages, sI, messages, sFails, sLog, sError>>

SerialNext ==
  \/ \E f \in SerialInboxes, stored \in BOOLEAN : syncOnce(f, stored)
  \/ \E email \in DeleteEmails : deleteOnce(email)

SpecSerial == InitOverlap /\ [][SerialNext]_vars

---------------------------------------------------------------------------
(* How a request to the worker ends: the enumeration loops of               *)
(* getAllMessageIds and deleteEmailsFromSender page by page, the rest of    *)
(* the operation as one step, and the responses of the listener. No         *)
(* history is kept, so that a loop that never ends is a cycle of states.    *)

\* what a listing call does: it throws, or returns count ids with or without
\* a nextPageToken
LivePages ==
  [kind : {"page"}, count : 0..MaxLivePage, cursor : BOOLEAN]
    \cup {[kind |-> "throw", count |-> 0, cursor |-> FALSE]}

\* the ids 1..n
FirstIds(n) == [k \in 1..n |-> k]

\* the listener on a loadEmails request: loadAndAnalyzeEmails(max) up to the
\* first listing call of getAllMessageIds
loadEmails(max) ==
  /\ unit = "background"
  /\ sPc = "idle"
  /\ sOp' = "loadAndAnalyzeEmails"
  /\ maxResults' = max
  /\ sPc' = "list"
  /\ UNCHANGED <<unit, transportVars, storeVars, aggVars, uiVars, deleteVars, messageIds,
                 pageToken, sPages, sI, messages, sFails, sLog, sError, storage>>

\* the listener on a deleteEmails request: deleteEmailsFromSender(email) up
\* to its first listing call
deleteEmails(email) ==
  /\ unit = "background"
  /\ sPc = "idle"
  /\ sOp' = "deleteEmailsFromSender"
  /\ dEmail' = email
  /\ sPc' = "list"
  /\ UNCHANGED <<unit, transportVars, storeVars, aggVars, uiVars, dResult, dReply,
                 maxResults, messageIds, pageToken, sPages, sI, messages, sFails, sLog,
                 sError, storage>>

\* a listing call returns or throws. getAllMessageIds breaks without a cursor
\* or at the cap and sleeps otherwise; deleteEmailsFromSender sleeps and goes
\* on as long as there is a cursor. What is thrown reaches the listener.
pageReturns(outcome) ==
  /\ sPc = "list"
  /\ LET sync == sOp = "loadAndAnalyzeEmails"
         requested == IF sync THEN Min(PageSize(unit), maxResults - Len(messageIds))
                      ELSE DeletePageSize
         total == Len(messageIds) + outcome.count
         stop == IF sync THEN ~outcome.cursor \/ total >= maxResults
                 ELSE ~outcome.cursor
     IN /\ outcome.count <= requested
        /\ total <= MaxLive
        /\ IF outcome.kind = "throw"
           THEN /\ sPc' = "failed"
                /\ replies' = replies + 1
                /\ UNCHANGED <<messageIds, pageToken>>
           ELSE /\ messageIds' = FirstIds(total)
                /\ pageToken' = IF sync /\ stop THEN pageToken
                                ELSE IF outcome.cursor THEN 1 ELSE 0
                /\ sPc' = IF stop THEN "rest" ELSE "sleep"
                /\ UNCHANGED replies
  /\ UNCHANGED <<unit, transportVars, overlapVars, managerVars, aggVars, uiVars, deleteVars, sOp,
                 maxResults, sPages, sI, messages, sFails, sLog, sError, storage>>

\* `await sleep(RATE_LIMIT_DELAY)` is over: the loop test holds and the next
\* listing call is made
pauseOver ==
  /\ sPc = "sleep"
  /\ sPc' = "list"
  /\ UNCHANGED <<unit, transportVars, storeVars, aggVars, uiVars, deleteVars, sOp,
                 maxResults, messageIds, pageToken, sPages, sI, messages, sFails, sLog,
                 sError, storage>>

\* the operation behind its enumeration, loops over the ids enumerated, runs
\* to its return (ok) or throws, and the listener responds; a deletion without
\* ids throws
requestEnds(ok) ==
  /\ sPc = "rest"
  /\ ok => (sOp = "deleteEmailsFromSender" => messageIds # <<>>)
  /\ sPc' = IF ok THEN "done" ELSE "failed"
  /\ replies' = replies + 1
  /\ UNCHANGED <<unit, transportVars, overlapVars, managerVars, aggVars, uiVars, deleteVars, sOp,
                 maxResults, messageIds, pageToken, sPages, sI, messages, sFails, sLog,
                 sError, storage>>

LiveNext ==
  \/ \E max \in 1..MaxLiveCap : loadEmails(max)
  \/ \E email \in DeleteEmails : deleteEmails(email)
  \/ \E o \in LivePages : pageReturns(o)
  \/ pauseOver
  \/ \E ok \in BOOLEAN : requestEnds(ok)

\* every call that is awaited returns sooner or later, and the worker then
\* takes its next step
SpecLive == InitOverlap /\ [][LiveNext]_vars /\ WF_vars(LiveNext)

---------------------------------------------------------------------------
(* StorageManager: the history of actions. The calls of addToHistory follow *)
(* one another; a record is written as the number of the call that made it. *)

\* getHistory(limit) on what the store holds: `limit ? history.slice(0, limit)
\* : history`
getHistory(stored, limit) ==
  IF limit # 0 THEN SubSeq(stored, 1, Min(limit, Len(stored))) ELSE stored

\* addToHistory(action) up to its `await this.set(...)`: getHistory() with
\* its default limit, the record put in front, the list cut at HistoryCap
addToHistory ==
  /\ unit = "StorageManager"
  /\ hPc = "idle"
  /\ hCalls < MaxCalls
  /\ hCalls' = hCalls + 1
  /\ LET unshifted == <<hCalls + 1>> \o getHistory(actionHistory, HistoryLimit)
     IN history' = IF Len(unshifted) > HistoryCap
                   THEN SubSeq(unshifted, 1, HistoryCap) ELSE unshifted
  /\ hPc' = "set"
  /\ UNCHANGED <<unit, transportVars, overlapVars, replies, actionHistory, wCalls,
                 aggVars, syncVars, deleteVars, uiVars>>

\* `await this.set({ [this.keys.HISTORY]: history })` resolves
historySet ==
  /\ hPc = "set"
  /\ actionHistory' = history
  /\ hPc' = "idle"
  /\ UNCHANGED <<unit, transportVars, overlapVars, replies, history, hCalls, wCalls,
                 aggVars, syncVars, deleteVars, uiVars>>

InitHistory ==
  /\ unit = "StorageManager"
  /\ aMessages = <<>>
  /\ storage = NoStorage
  /\ storedWhitelist = {}
  /\ InitProgram

HistoryNext == addToHistory \/ historySet

SpecHistory == InitHistory /\ [][HistoryNext]_vars

---------------------------------------------------------------------------
(* StorageManager: the white list. Calls of addToWhitelist and              *)
(* removeFromWhitelist that overlap, step by step between their awaits.     *)

\* the addresses handed to the white-list functions
WhitelistEmails == {"News@Shop.com", "bob@x.org", "ann@y.net"}

\* addToWhitelist(email) or removeFromWhitelist(email) is called: it awaits
\* getWhitelist()
whitelistCall(c, op, email) ==
  /\ unit = "StorageManager"
  /\ wCalls[c].pc = "idle"
  /\ wCalls' = [wCalls EXCEPT ![c] = [pc |-> "get", op |-> op, email |-> email,
                                      whitelist |-> {}]]
  /\ UNCHANGED <<unit, transportVars, overlapVars, replies, actionHistory, history, hPc,
                 hCalls, aggVars, syncVars, deleteVars, uiVars>>

\* getWhitelist() returns what the store holds as a new Set; the call adds or
\* deletes email.toLowerCase() and awaits saveWhitelist(whitelist)
getWhitelist(c) ==
  /\ wCalls[c].pc = "get"
  /\ LET key == toLowerCase(wCalls[c].email)
         set == IF wCalls[c].op = "addToWhitelist" THEN storedWhitelist \cup {key}
                ELSE storedWhitelist \ {key}
     IN wCalls' = [wCalls EXCEPT ![c].pc = "set", ![c].whitelist = set]
  /\ UNCHANGED <<unit, transportVars, overlapVars, replies, actionHistory, history, hPc,
                 hCalls, aggVars, syncVars, deleteVars, uiVars>>

\* saveWhitelist(whitelist): its storage.set resolves and the call returns
whitelistSaved(c) ==
  /\ wCalls[c].pc = "set"
  /\ storedWhitelist' = wCalls[c].whitelist
  /\ wCalls' = [wCalls EXCEPT ![c].pc = "done"]
  /\ UNCHANGED <<unit, transportVars, overlapVars, replies, actionHistory, history, hPc,
                 hCalls, aggVars, syncVars, deleteVars, whitelist, uiPc, uiEmail, uiSent>>

InitWhitelist ==
  /\ unit = "StorageManager"
  /\ aMessages = <<>>
  /\ storage = NoStorage
  /\ storedWhitelist \in {{}, {"bob@x.org"}}
  /\ InitProgram

WhitelistNext ==
  \/ \E c \in WhitelistCalls, op \in {"addToWhitelist", "removeFromWhitelist"},
        email \in WhitelistEmails : whitelistCall(c, op, email)
  \/ \E c \in WhitelistCalls : getWhitelist(c)
  \/ \E c \in WhitelistCalls : whitelistSaved(c)

SpecWhitelist == InitWhitelist /\ [][WhitelistNext]_vars

---------------------------------------------------------------------------
(* Properties *)

\* the cache of the unit under analysis
Cached ==
  IF unit = "background"
  THEN [token |-> accessToken, expiresAt |-> tokenExpiresAt]
  ELSE [token |-> apiAccessToken, expiresAt |-> apiTokenExpiresAt]

\* the failure classes of the specification, by the messages that carry them
AuthRequired(message) == message = MsgReauth
PermissionDenied(message) == message \in {MsgForbiddenBg, MsgForbiddenApi}
RateLimited(message) == message = MsgRateLimit
ServiceUnavailable(message) == message = MsgUnavailable
ProtocolError(message) == message = MsgNotJson

\* a step in which getAuthToken ran on the cache as the step found it
Acquired == ev.step \in {"acquire", "send"} /\ ev.op # "checkAuthentication"
\* that step found a credential cached and unexpired
FoundValid == ev.held /\ ~ev.expired
\* a step that handled a response
Responded == ev.step = "response"

\* C1: an acquisition made when the clock has reached the cached expiry never
\* returns the cached token, in the worker and in the GmailAPI class: what it
\* returns comes from a new request to the consent mechanism
C1_ExpiredNeverServed ==
  ev.step \in {"acquire", "send"} /\ ev.expired =>
    /\ ev.source # "cache"
    /\ ~ev.threw /\ ev.op # "checkAuthentication" => ev.source = "fresh" /\ ev.fetched

\* C1 happens: a transport call of the worker found an expired token cached and
\* went to the consent mechanism
C1_Witness ==
  /\ ev.op = "gmailApiRequest" /\ ev.step = "send"
  /\ ev.held /\ ev.expired /\ ev.source = "fresh"

\* C2: a 401 response clears the cache (token and expiry null) and fails with
\* the re-authorisation error, and no transport call sends from the cache a
\* credential that was answered with 401
C2_Cleared401NotReused ==
  /\ Responded /\ ev.response.status = 401 =>
       /\ ev.threw /\ AuthRequired(ev.error)
       /\ Cached = [token |-> Null, expiresAt |-> NullTime]
  /\ ev.sent => ~ev.sentRefused

\* C2 happens: after a 401 a later transport call sent a request
C2_Witness == refused = "cleared" /\ ev.step = "send" /\ ev.sent

\* C3 as stated: the cache changes only by a successful fetch (one that
\* completes without error) or by a 401
C3_OnlyFetchOr401 ==
  ev.changed =>
    \/ ev.fetched /\ ev.fetch.kind = "token"
         /\ (unit = "GmailAPI" => Truthy(ev.fetch.token))
    \/ Responded /\ ev.response.status = 401

\* C3 amended: the cache changes only by a fetch that completes without error
\* (in the worker also one that yields an empty token), by a 401, by
\* checkAuthentication, which clears it before it fetches, or by the worker's
\* interactive acquisition, which clears it before it fetches; a failed silent
\* fetch outside checkAuthentication and a response other than 401 leave it
C3_ChangesOnlyBy ==
  ev.changed =>
    \/ ev.fetched /\ ev.fetch.kind = "token"
         /\ (unit = "GmailAPI" => Truthy(ev.fetch.token))
    \/ Responded /\ ev.response.status = 401
    \/ ev.op = "checkAuthentication"
    \/ ev.op = "authenticate"

\* C3 happens: checkAuthentication found a token cached, its fetch failed, and
\* the cache is left cleared
C3_Witness ==
  /\ ev.op = "checkAuthentication" /\ ev.held /\ ev.changed
  /\ ev.fetch.kind = "error"
  /\ Cached = [token |-> Null, expiresAt |-> NullTime]

\* C4 as stated: with either flag, a cached unexpired credential is returned
\* and the consent mechanism is not called
C4_ValidServedEitherFlag ==
  Acquired /\ FoundValid =>
    ev.source = "cache" /\ ev.same /\ ~ev.fetched /\ ~ev.cleared /\ ~ev.changed

\* C4 amended: a cached unexpired credential is returned without a call to the
\* consent mechanism by the GmailAPI class with either flag and by the worker
\* with interactive = false; the worker's interactive acquisition always clears
\* the cached tokens and asks the consent mechanism
C4_ValidServedUnlessInteractiveWorker ==
  /\ Acquired /\ FoundValid /\ ev.op # "authenticate" =>
       ev.source = "cache" /\ ev.same /\ ~ev.fetched /\ ~ev.cleared /\ ~ev.changed
  /\ ev.op = "authenticate" => ev.fetched /\ ev.cleared /\ ev.source # "cache"

\* C4 happens: the class served a valid cached token to an interactive call
C4_Witness ==
  /\ ev.op = "GmailAPI.getAuthToken" /\ ev.interactive
  /\ FoundValid /\ ev.source = "cache"

\* C5: a transport call acquires with interactive = false, and sends its
\* request only with a non-empty token: when the consent mechanism answers with
\* an error or an empty token the call fails and nothing is sent
C5_SendsOnlyWithToken ==
  ev.step = "send" =>
    /\ ~ev.interactive
    /\ ev.sent => Truthy(ev.token)
    /\ ev.fetched /\ (ev.fetch.kind = "error" \/ ~Truthy(ev.fetch.token)) =>
         ~ev.sent /\ ev.threw

\* C6: a 2xx response with an empty body, whatever its content-type, succeeds
\* with the empty result in both transports
C6_EmptyBodySucceeds ==
  Responded /\ Ok(ev.response) /\ ev.response.body.kind = "empty" =>
    ~ev.threw /\ ev.result = "{}"

\* C7: a 2xx response with a non-JSON content-type and a non-empty body fails
\* with the non-JSON failure and gives no result, in both transports
C7_NonJsonFails ==
  Responded /\ Ok(ev.response) /\ ev.response.contentType = "text/html"
    /\ ev.response.body.kind \in {"text", "json"} =>
    ev.threw /\ ProtocolError(ev.error) /\ ev.result = None

\* the message the claim expects of a response that is not 2xx, 401, 403, 429
\* or 5xx: the provider's when the body carries one, else the status code
ExpectedMessage(response) ==
  IF response.body.kind = "json" /\ response.body.hasMessage
       /\ response.body.message # ""
  THEN response.body.message
  ELSE HttpMsg(response.status)

\* C8: of the responses that are not 2xx, 401 or 5xx, 403 fails with the
\* permission failure, 429 with the rate-limit failure, any other with the
\* provider's message when there is one and else with the status code; the
\* cache is left as it was
C8_ErrorClasses ==
  Responded /\ ~Ok(ev.response) /\ ev.response.status \notin {401, 500, 502, 503} =>
    /\ ev.threw /\ ev.result = None
    /\ ev.response.status = 403 => PermissionDenied(ev.error)
    /\ ev.response.status = 429 => RateLimited(ev.error)
    /\ ev.response.status \notin {403, 429} =>
         ev.error = ExpectedMessage(ev.response)
    /\ ~ev.changed

\* C8 happens: a 404 whose body carries a message failed with that message
C8_Witness ==
  /\ Responded /\ ev.response.status = 404
  /\ ev.response.body.hasMessage /\ ev.error = "Backend Error"
  /\ ev.held

\* C9: a 500, 502 or 503 response fails with the unavailable failure in both
\* transports
C9_ServerErrorsUnavailable ==
  Responded /\ ev.response.status \in {500, 502, 503} =>
    ev.threw /\ ServiceUnavailable(ev.error)

\* the attempts of the run so far, and its sleeps
Attempts == {k \in 1..Len(rTrace) : rTrace[k].what = "attempt"}
Sleeps == {k \in 1..Len(rTrace) : rTrace[k].what = "sleep"}
Finished == rPc \in {"returned", "thrown"}

\* C10, of the runs whose failures are all rate-limit or unavailable failures:
\* retryWithBackoff calls the operation at most maxRetries times, returns
\* at the first success, waits 2^(i-1) seconds after the i-th failed attempt,
\* and follows every wait by an attempt: exhausted with maxRetries = 3 it does
\* attempt, wait 1 s, attempt, wait 2 s, attempt, fail
C10_EveryWaitThenAttempt ==
  (\A k \in Attempts : rTrace[k].outcome \in {"value", MsgRateLimit, MsgUnavailable}) =>
  /\ Cardinality(Attempts) <= rMaxRetries
  /\ \A k \in Attempts : rTrace[k].outcome = "value" => k = Len(rTrace) /\ rPc = "returned"
  /\ \A k \in Sleeps :
       /\ rTrace[k].ms = Pow2(Cardinality({j \in Attempts : j < k}) - 1) * 1000
       /\ Finished => k < Len(rTrace) /\ rTrace[k + 1].what = "attempt"
  /\ rPc = "thrown" /\ rMaxRetries = 3 /\ Cardinality(Attempts) = 3 /\ rI = 3 =>
       [k \in 1..Len(rTrace) |-> rTrace[k].ms] = <<0, 1000, 0, 2000, 0>>

\* the last attempt of the run so far
LastAttempt == CHOOSE k \in Attempts : \A j \in Attempts : j <= k

\* C11: an attempt that fails with the re-authorisation (401) or the permission
\* (403) failure ends the run at once with that failure: no attempt and no
\* wait follows it
C11_AuthAndPermissionNotRetried ==
  \A k \in Attempts :
    AuthRequired(rTrace[k].outcome) \/ PermissionDenied(rTrace[k].outcome) =>
      k = Len(rTrace) /\ rPc = "thrown" /\ rResult = rTrace[k].outcome

\* C12: a finished run with maxRetries >= 1 has a result or a failure, and a
\* run that fails, in particular after maxRetries failed attempts, fails with
\* the failure of its last attempt
C12_ExhaustedThrowsLast ==
  Finished /\ rMaxRetries >= 1 =>
    /\ Attempts # {}
    /\ rPc = "returned" => rResult = "value" /\ rTrace[LastAttempt].outcome = "value"
    /\ rPc = "thrown" =>
         /\ rResult = rTrace[LastAttempt].outcome
         /\ rResult \notin {"value", None, Empty}

\* C12 happens: three attempts failed, the first and the last differently, and
\* the run failed after the last wait
C12_Witness ==
  /\ rPc = "thrown" /\ rMaxRetries = 3 /\ Cardinality(Attempts) = 3
  /\ rI = 3
  /\ rTrace[1].outcome = MsgRateLimit /\ rTrace[LastAttempt].outcome = MsgUnavailable

\* C13: only rate-limit and unavailable failures are retried: an attempt that
\* fails in any other way (re-authorisation, permission, a provider message, a
\* body that does not parse, no token from the consent mechanism) is the only
\* attempt of the run, which fails with it without waiting
C13_OnlyTransientRetried ==
  \A k \in Attempts :
    rTrace[k].outcome \notin {"value", MsgRateLimit, MsgUnavailable} =>
      /\ k = Len(rTrace) /\ rPc = "thrown" /\ rResult = rTrace[k].outcome
      /\ Cardinality(Attempts) = 1 /\ Sleeps = {}

\* the sender records analyzeMessages returned
Senders == {aResult.senders[k] : k \in 1..Len(aResult.senders)}
\* the elements of a sequence
Range(seq) == {seq[k] : k \in 1..Len(seq)}
\* the operations that list, and those that fetch details
ListingOps == {"getAllMessageIds", "searchMessages", "loadAndAnalyzeEmails"}
DetailOps == {"loadMessagesBatch", "batchGetMessages", "loadAndAnalyzeEmails"}
\* the positions in the history of the entries of one kind
Entries(what) == {k \in 1..Len(sLog) : sLog[k].what = what}
\* the failures of listing calls and of detail calls
ListFailures == {k \in Entries("error") : sLog[k].a = 0}
FailedIds == {sLog[k].a : k \in Entries("error")} \ {0}

RECURSIVE Collected(_)
\* how many messages the pages among the first k entries carried
Collected(k) ==
  IF k = 0 THEN 0
  ELSE Collected(k - 1) + (IF sLog[k].what = "page" THEN sLog[k].a ELSE 0)
\* nextPageToken of the last page before entry k; 0 when there is none
CursorBefore(k) ==
  LET before == {j \in Entries("page") : j < k}
  IN IF before = {} THEN 0 ELSE sLog[CHOOSE j \in before : \A i \in before : i <= j].b
\* every page carried at most as many messages as its request asked for
WithinRequested == \A k \in Entries("page") : sLog[k].a <= sLog[k - 1].a

\* C14: in loadAndAnalyzeEmails a single failure of a listing or detail call
\* with the 429 or the 5xx failure does not fail the operation and does not
\* lose the item: every id listed is among the details fetched
C14_TransientSurvived ==
  /\ sOp = "loadAndAnalyzeEmails"
  /\ Cardinality(Entries("error")) = 1
  /\ \A k \in Entries("error") : sLog[k].msg \in TransientErrors(unit)
  => /\ sPc # "failed"
     /\ sPc \in {"cache", "done"} => messages = messageIds

\* C15: every listing request asks for min(page size, maxResults - collected)
\* messages and passes the nextPageToken of the page before it; no request
\* follows a page without nextPageToken or one that brings the list to
\* maxResults; the list is the pages in order, and has at most maxResults ids
\* when no page carries more than was asked for
C15_ListingPages ==
  sOp \in ListingOps =>
    /\ \A k \in Entries("list") :
         /\ sLog[k].a = Min(PageSize(unit), maxResults - Collected(k - 1))
         /\ sLog[k].b = CursorBefore(k)
    /\ \A k \in Entries("page") :
         sLog[k].b = 0 \/ Collected(k) >= maxResults =>
           \A j \in Entries("list") : j < k
    /\ messageIds = [k \in 1..Collected(Len(sLog)) |-> k]
    /\ WithinRequested => Len(messageIds) <= maxResults

\* C15 happens: getAllMessageIds(MaxCap) got two full pages and the rest in a
\* third, pausing twice
C15_Witness ==
  /\ sOp = "getAllMessageIds" /\ sPc = "done" /\ maxResults = MaxCap
  /\ Cardinality(Entries("page")) = 3 /\ WithinRequested
  /\ \A k \in Entries("page") : sLog[k].a = sLog[k - 1].a
  /\ Cardinality(Entries("sleep")) = 2
  /\ Len(messageIds) = MaxCap

\* C16: a failure of a listing call fails the operation with that failure: no
\* list is returned, nothing is fetched or analysed after it, and
\* loadAndAnalyzeEmails writes neither emailAnalysis nor lastUpdated
C16_ListFailurePropagates ==
  \A k \in ListFailures :
    /\ k = Len(sLog)
    /\ sPc = "failed" /\ sError = sLog[k].msg
    /\ messages = <<>> /\ aPc = "idle"
    /\ ~storage.has /\ storage.lastUpdated = NullTime

\* C16 happens: loadAndAnalyzeEmails had listed a page when its second
\* listing call failed
C16_Witness ==
  /\ sOp = "loadAndAnalyzeEmails" /\ sPc = "failed"
  /\ ListFailures # {} /\ Len(messageIds) >= 1
  /\ ~storage.has

\* the ids the detail fetcher asked for
Attempted ==
  {sLog[k].a : k \in Entries("get")}
    \cup UNION {sLog[k].a..(sLog[k].a + sLog[k].b - 1) : k \in Entries("chunk")}

\* C17: the failure of a detail call does not fail the detail fetcher; when it
\* returns it has asked for every id, the failed ones included, and its result
\* is the details of the ids that succeeded, in the order of the ids
C17_BestEffort ==
  sOp \in DetailOps =>
    /\ ListFailures = {} => sPc # "failed"
    /\ sPc \in {"cache", "done"} =>
         /\ Attempted = Range(messageIds)
         /\ messages = SelectSeq(messageIds, LAMBDA id : id \notin FailedIds)

\* C17 happens: loadMessagesBatch on 12 ids, the seventh failing, returned 11
\* details after one pause between its two batches
C17_Witness ==
  /\ sOp = "loadMessagesBatch" /\ sPc = "done"
  /\ Len(messageIds) = 12 /\ FailedIds = {7}
  /\ Len(messages) = 11
  /\ Cardinality({k \in Entries("sleep") : sLog[k].a = RATE_LIMIT_DELAY}) = 1

\* where id stands in a list of summaries
PositionOf(summaries, id) == CHOOSE k \in 1..Len(summaries) : summaries[k].id = id

\* C18: in the result of analyzeMessages every sender has
\* 0 <= unreadCount <= totalCount, totalCount >= 1 and as many messageIds as
\* totalCount
C18_SenderCounts ==
  aPc = "done" =>
    \A s \in Senders :
      /\ 0 <= s.unreadCount /\ s.unreadCount <= s.totalCount
      /\ s.totalCount >= 1
      /\ Len(s.messageIds) = s.totalCount

\* C18 happens: a sender with three summaries, two of them unread
C18_Witness ==
  /\ aPc = "done"
  /\ \E s \in Senders : s.totalCount = 3 /\ s.unreadCount = 2

\* the unsubscribe link the script under analysis extracts from a summary
MessageLink(message) ==
  IF ~message.payload \/ message.unsub = Empty THEN Null
  ELSE IF unit = "EmailParser" THEN ParserLinkOf[message.unsub]
  ELSE LinkOf[message.unsub]
\* the link held for `email` after the first n summaries; Null before its record
LinkAfter(n, email) ==
  LET map == Loop(unit, aMessages, n).sendersMap
  IN IF Position(map, email) = 0 THEN Null
     ELSE map[Position(map, email)].unsubscribeLink
\* the summaries of a sender that yield a link, by position in the input
Yielding(s) ==
  {k \in 1..Len(aMessages) :
     aMessages[k].id \in Range(s.messageIds) /\ TruthyString(MessageLink(aMessages[k]))}

Permute(summaries, p) == [k \in 1..Len(summaries) |-> summaries[p[k]]]
\* the e-mail, totalCount and unreadCount of every sender of a result
Totals(result) ==
  {<<result.senders[k].email, result.senders[k].totalCount,
     result.senders[k].unreadCount>> : k \in 1..Len(result.senders)}
\* every sender's messageIds stand in the order they have in `summaries`
InInputOrder(result, summaries) ==
  \A k \in 1..Len(result.senders) :
    LET ids == result.senders[k].messageIds
    IN \A i, j \in 1..Len(ids) :
         i < j => PositionOf(summaries, ids[i]) < PositionOf(summaries, ids[j])

\* C20: analyzeMessages gives for every permutation of its input the same set
\* of sender e-mails, the same totalCount and unreadCount for each sender and
\* the same statistics, and each sender's messageIds in the relative order of
\* the input it was given
C20_OrderIndependent ==
  aPc = "done" =>
    \A p \in Permutations(1..Len(aMessages)) :
      LET permuted == Permute(aMessages, p)
          result == analyzeMessages(unit, permuted)
      IN /\ Totals(result) = Totals(aResult)
         /\ Len(result.senders) = Len(aResult.senders)
         /\ result.stats = aResult.stats
         /\ InInputOrder(result, permuted)

\* C20 happens: a sender with a read and an unread message, and a summary
\* without sender
C20_Witness ==
  /\ aPc = "done" /\ Len(aMessages) = 3
  /\ aResult.stats.totalSenders = 1 /\ aResult.stats.totalEmails = 3
  /\ \E s \in Senders : s.totalCount = 2 /\ s.unreadCount = 1

RECURSIVE SumOver(_, _)
\* senders.reduce((sum, s) => sum + s[field], 0) for field totalCount (TRUE)
\* or unreadCount (FALSE)
SumOver(senders, total) ==
  IF senders = <<>> THEN 0
  ELSE (IF total THEN Head(senders).totalCount ELSE Head(senders).unreadCount)
         + SumOver(Tail(senders), total)

\* C21: the statistics of a result are the aggregation of its senders:
\* totalEmails is the sum of their totalCount, unreadEmails the sum of their
\* unreadCount, totalSenders their number, also when summaries have no From
\* header or no derivable sender e-mail
C21_StatsAggregateSenders ==
  aPc = "done" =>
    /\ aResult.stats.totalEmails = SumOver(aResult.senders, TRUE)
    /\ aResult.stats.unreadEmails = SumOver(aResult.senders, FALSE)
    /\ aResult.stats.totalSenders = Len(aResult.senders)

\* the summary carries a bulk-mail indicator: a List-Unsubscribe, List-Id or
\* List-Post header, or the Precedence header with the value bulk
Indicator(message) ==
  \/ TruthyString(message.unsub)
  \/ TruthyString(message.listId)
  \/ TruthyString(message.listPost)
  \/ (message.precedence # Empty /\ toLowerCase(message.precedence) = "bulk")

\* C22: a sender is flagged as bulk mail exactly when one of its summaries
\* carries List-Unsubscribe, List-Id, List-Post or Precedence: bulk; a
\* Precedence header with another value alone does not flag the sender
C22_FlagIffIndicator ==
  (aPc = "done" /\ unit = "EmailParser") =>
    \A s \in Senders :
      s.isNewsletter <=>
        \E k \in 1..Len(aMessages) :
          /\ aMessages[k].id \in Range(s.messageIds)
          /\ Indicator(aMessages[k])

\* the URI of an entry '<...>' of a List-Unsubscribe value
Unbracket(uri) == SubSeq(uri, 2, Len(uri) - 1)
\* the entries of a list that are http(s) URIs, and those that are mailto URIs
HttpEntries(uris) ==
  {k \in 1..Len(uris) : HasAt(uris[k], 1, "<http://") \/ HasAt(uris[k], 1, "<https://")}
MailtoEntries(uris) == {k \in 1..Len(uris) : HasAt(uris[k], 1, "<mailto:")}
\* the first http(s) URI if there is one, else the first mailto URI with its
\* prefix, else no link
PreferredLink(uris) ==
  IF HttpEntries(uris) # {} THEN Unbracket(uris[Least(HttpEntries(uris))])
  ELSE IF MailtoEntries(uris) # {} THEN Unbracket(uris[Least(MailtoEntries(uris))])
  ELSE Null

\* C23: the link extracted from a List-Unsubscribe value is its first http(s)
\* URI wherever it stands, otherwise its first mailto URI with the prefix
\* mailto:, otherwise none, for the worker's extractor as for EmailParser's
C23_HttpThenMailto ==
  (aPc = "done" /\ Len(aMessages) = 1 /\ Len(aResult.senders) = 1) =>
    \A uris \in UriLists :
      aMessages[1].unsub = Join(uris) =>
        aResult.senders[1].unsubscribeLink = PreferredLink(uris)

\* the deleting operations, and whether one is over
DeleteOps == {"deleteEmailsFromSender", "batchDelete"}
DeleteOver == sOp \in DeleteOps /\ sPc \in {"done", "failed"}
\* the enumeration for the sender has ended (its last page had no cursor, or
\* the ids were handed over) and has yielded no id
EnumeratedNone ==
  /\ sOp \in DeleteOps
  /\ messageIds = <<>>
  /\ sOp = "deleteEmailsFromSender" => \E k \in Entries("page") : sLog[k].b = 0
\* the failure of a deletion without anything to delete
NothingToDelete(message) == message \in {MsgNotFound, MsgNoIds}

\* C24: when the enumeration of the delete flow yields no id, the deletion
\* fails with NothingToDelete, no batch-delete request is issued and the cached
\* analysis stays as it was
C24_NothingToDelete ==
  EnumeratedNone =>
    /\ sPc = "failed" /\ NothingToDelete(sError)
    /\ sOp = "deleteEmailsFromSender" => dReply = ReplyError(sError)
    /\ Entries("delete") = {}
    /\ storage \in {NoStorage, Synced}

\* C24 happens: the worker was asked to delete a cached sender, the provider
\* answered two pages without messages
C24_Witness ==
  /\ EnumeratedNone /\ sOp = "deleteEmailsFromSender" /\ sPc = "failed"
  /\ dEmail = "bob@x.org" /\ storage = Synced
  /\ Cardinality(Entries("page")) = 2

RECURSIVE Submitted(_)
\* how many ids the batch-delete requests among the first k entries carried
Submitted(k) ==
  IF k = 0 THEN 0
  ELSE Submitted(k - 1) + (IF sLog[k].what = "delete" THEN sLog[k].b ELSE 0)
\* the pauses behind the first batch-delete request
DeletePauses == {k \in Entries("sleep") : \E d \in Entries("delete") : d < k}

\* C25: in a deletion that succeeds every id enumerated is submitted in exactly
\* one batch-delete request, a request carries 1 to 1000 ids, the requests
\* follow the order of the enumeration, the enumeration is over before the
\* first request, and there are exactly (number of requests - 1) pauses
C25_ChunksInOrder ==
  (sOp \in DeleteOps /\ sPc = "done") =>
    /\ messageIds = [k \in 1..Len(messageIds) |-> k]
    /\ sOp = "deleteEmailsFromSender" => Len(messageIds) = Collected(Len(sLog))
    /\ \A d \in Entries("delete") :
         /\ sLog[d].b \in 1..DeleteBatchSize
         /\ sLog[d].a = Submitted(d - 1) + 1
    /\ Submitted(Len(sLog)) = Len(messageIds)
    /\ \A k \in Entries("list") \cup Entries("page") : \A d \in Entries("delete") : k < d
    /\ Cardinality(DeletePauses) = Cardinality(Entries("delete")) - 1

\* a sequence without its element at position `at`
Without(seq, at) ==
  [k \in 1..(Len(seq) - 1) |-> IF k < at THEN seq[k] ELSE seq[k + 1]]

\* C26: after a successful deletion for an e-mail that has a record in the
\* cached analysis the record is gone, totalEmails and unreadEmails are lower
\* by its totalCount and unreadCount, totalSenders by one, and the other
\* records are the same in the same order; without such a record the senders
\* and the statistics are unchanged
C26_CacheForgetsSender ==
  (sOp = "deleteEmailsFromSender" /\ sPc = "done" /\ storage.has) =>
    LET before == Synced.emailAnalysis
        after == storage.emailAnalysis
        at == Position(before.senders, dEmail)
    IN IF at = 0 THEN after = before
       ELSE /\ \A k \in 1..Len(after.senders) : after.senders[k].email # dEmail
            /\ after.senders = Without(before.senders, at)
            /\ after.stats.totalEmails =
                 before.stats.totalEmails - before.senders[at].totalCount
            /\ after.stats.unreadEmails =
                 before.stats.unreadEmails - before.senders[at].unreadCount
            /\ after.stats.totalSenders = before.stats.totalSenders - 1

\* C26 happens: the second of three cached senders, with two messages of which
\* one is unread, was deleted
C26_Witness ==
  /\ sOp = "deleteEmailsFromSender" /\ sPc = "done" /\ storage.has
  /\ dEmail = "bob@x.org"
  /\ Synced.emailAnalysis.senders[2].email = "bob@x.org"
  /\ Len(storage.emailAnalysis.senders) = 2
  /\ storage.emailAnalysis.stats =
       [totalEmails |-> 5, unreadEmails |-> 2, totalSenders |-> 2, newsletterSenders |-> 0]

\* C27: a successful deletion returns the number of messages deleted, which is
\* the number of ids enumerated for the sender, and the response to the
\* deleteEmails request carries that number
C27_ReturnsCount ==
  (sOp = "deleteEmailsFromSender" /\ sPc = "done") =>
    /\ dResult = JsNumber(Len(messageIds))
    /\ dReply.sent /\ dReply.success
    /\ dReply.count = JsNumber(Len(messageIds))

\* C28: whatever was added to and removed from the white list, by the toggle
\* or by the settings input, the popup never sends a deleteEmails request for
\* a sender whose e-mail the white list protects, letter case apart
C28_ProtectedNeverDeleted ==
  \A k \in 1..Len(uiSent) : ~uiSent[k].protected

\* the percentages reported so far never decrease and lie in 0..100
ProgressMonotone ==
  \A i, j \in Entries("progress") :
    /\ sLog[i].a \in 0..100
    /\ i < j => sLog[i].a <= sLog[j].a

\* C29: within one synchronisation or deletion the percentages reported never
\* decrease, stay within 0..100, and 100 is reported only in a run that
\* completes successfully
C29_ProgressMonotone ==
  /\ ProgressMonotone
  /\ (\E k \in Entries("progress") : sLog[k].a = 100) => sPc # "failed"

\* C30: whenever the synchronisation returns an analysis, the cache holds
\* exactly that analysis under emailAnalysis, with lastUpdated set at that
\* time; it never reports success while the cache holds what it held before
C30_SuccessMeansCached ==
  (sOp = "loadAndAnalyzeEmails" /\ sPc = "done") =>
    /\ storage.has
    /\ storage.emailAnalysis = aResult
    /\ storage.lastUpdated = now

\* C31: a listing pauses once between two page requests and not after the
\* last page: a run that has fetched p >= 1 pages has paused p - 1 times, each
\* pause of the fixed length, behind a page and before the next request
C31_PausesBetweenPages ==
  sOp \in {"getAllMessageIds", "searchMessages"} =>
    /\ \A k \in Entries("sleep") :
         /\ sLog[k].a = ListDelay(unit)
         /\ sLog[k - 1].what = "page"
         /\ k < Len(sLog) /\ sLog[k + 1].what = "list"
    /\ (sPc = "done" /\ Entries("page") # {}) =>
         Cardinality(Entries("sleep")) = Cardinality(Entries("page")) - 1

\* C31 happens: with the cap 250 the provider served pages of 100, 100 and 50
\* messages, the last without cursor; 250 ids were returned after two pauses
C31_Witness ==
  /\ sOp \in {"getAllMessageIds", "searchMessages"} /\ sPc = "done"
  /\ maxResults = 250 /\ Len(messageIds) = 250
  /\ Cardinality(Entries("page")) = 3
  /\ \E i, j, k \in Entries("page") :
       /\ i < j /\ j < k
       /\ sLog[i].a = 100 /\ sLog[j].a = 100 /\ sLog[k].a = 50 /\ sLog[k].b = 0
  /\ Cardinality(Entries("sleep")) = 2

\* the pauses between batches: those of the fixed inter-batch length
BatchPauses == {k \in Entries("sleep") : sLog[k].a = ListDelay(unit)}
\* ceil(n / size)
CeilDiv(n, size) == (n + size - 1) \div size

\* C32: the detail fetcher pauses only between two batches: for n ids in
\* b = ceil(n / batchSize) batches it has paused b - 1 times when it returns,
\* and not after the last batch, the loader of the worker as batchGetMessages
C32_PausesBetweenBatches ==
  (sOp \in {"loadMessagesBatch", "batchGetMessages"} /\ sPc = "done"
     /\ Len(messageIds) >= 1) =>
    /\ Cardinality(BatchPauses) = CeilDiv(Len(messageIds), BatchSize(unit)) - 1
    /\ sLog[Len(sLog)].what = "sleep" => sLog[Len(sLog)].a # ListDelay(unit)

\* C33: the deletion's read and write of the cached analysis are atomic: no
\* write of emailAnalysis by an overlapping synchronisation falls between the
\* deletion's storage.get and its storage.set, so the copy the deletion writes
\* back is a rewrite of what the store holds at that moment
C33_UpdateIsAtomic ==
  /\ \A i \in 1..Len(oLog), k \in 1..Len(oLog) :
       (i < k /\ oLog[i] = Touched("delete", "get")
              /\ oLog[k] = Touched("delete", "set")) =>
         \A j \in (i + 1)..(k - 1) : oLog[j] # Touched("sync", "set")
  /\ (oLog # <<>> /\ oLog[Len(oLog)] = Touched("delete", "set")
        /\ oPc.sync = "done" /\ Touched("sync", "set") \in Range(oLog)) =>
       \E f \in FreshInboxes :
         storage.emailAnalysis =
           ForgetSender(analyzeMessages("background", WithIds(f)), dEmail)

\* C34: a deletion that fails after its enumeration succeeded leaves the
\* cached analysis as it was: the store changes only in the step that follows
\* the successful deletion of every chunk, and never in a step that fails
C34_FailureKeepsCache ==
  [][(sOp \in DeleteOps \/ sOp' \in DeleteOps) =>
       /\ storage' # storage =>
            /\ sPc = "dcache" /\ sPc' = "done"
            /\ Submitted(Len(sLog)) = Len(messageIds)
       /\ sPc' = "failed" => storage' = storage]_vars
\* the second chunk of a deletion failed after the first was deleted, and the
\* sender is still in the cache
C34_Witness ==
  /\ sOp = "deleteEmailsFromSender" /\ sPc = "failed"
  /\ Cardinality(Entries("delete")) = 2
  /\ sLog[Len(sLog)].what = "error"
  /\ sLog[Len(sLog) - 1].what = "delete"
  /\ dEmail = "bob@x.org" /\ storage = Synced
  /\ Position(storage.emailAnalysis.senders, dEmail) # 0

\* C35: after any series of synchronisations and deletions, each succeeding
\* before the next starts, the cached analysis has pairwise distinct sender
\* e-mails, totalSenders equal to the number of its sender records, and
\* totalEmails, unreadEmails and totalSenders >= 0 with unreadEmails <= totalEmails
C35_CacheWellFormed ==
  LET senders == storage.emailAnalysis.senders
      stats == storage.emailAnalysis.stats
  IN (unit = "background" /\ oLog # <<>> /\ oPc.delete = "idle" /\ oPc.sync = "idle") =>
       /\ \A i \in 1..Len(senders), j \in 1..Len(senders) :
            senders[i].email = senders[j].email => i = j
       /\ stats.totalSenders = Len(senders)
       /\ stats.totalEmails >= 0 /\ stats.unreadEmails >= 0 /\ stats.totalSenders >= 0
       /\ stats.unreadEmails <= stats.totalEmails
\* a synchronisation of three messages, then the deletion of one of its two
\* senders, then the deletion of a sender that is not cached
C35_Witness ==
  /\ oLog = <<Touched("sync", "set"), Touched("delete", "set"), Touched("delete", "set")>>
  /\ dEmail = "other@z.io"
  /\ Len(storage.emailAnalysis.senders) = 1
  /\ storage.emailAnalysis.senders[1].email = "news@shop.com"
  /\ storage.emailAnalysis.stats =
       [totalEmails |-> 2, unreadEmails |-> 2, totalSenders |-> 1, newsletterSenders |-> 0]

\* the key under which the script under analysis files a summary, Null when it
\* skips the summary
MessageKey(message) ==
  IF ~message.payload \/ message.from = Empty THEN Null
  ELSE IF unit = "EmailParser" THEN ParserEmailOf[message.from]
  ELSE EmailOf[message.from]
\* where the first message of a sender stands in the input
FirstMessage(email) ==
  Least({k \in 1..Len(aMessages) : MessageKey(aMessages[k]) = email})

\* C36: analyzeMessages returns the senders by totalCount, largest first, and
\* senders of equal totalCount in the order in which their first messages
\* stand in the input
C36_SortedStable ==
  aPc = "done" =>
    \A i \in 1..Len(aResult.senders), j \in 1..Len(aResult.senders) :
      i < j =>
        /\ aResult.senders[i].totalCount >= aResult.senders[j].totalCount
        /\ aResult.senders[i].totalCount = aResult.senders[j].totalCount =>
             FirstMessage(aResult.senders[i].email) < FirstMessage(aResult.senders[j].email)
\* two senders with one message each, the one listed first coming first, and
\* a third message without sender between them
C36_Witness ==
  /\ aPc = "done" /\ Len(aMessages) = 3
  /\ Len(aResult.senders) = 2
  /\ aResult.senders[1].email = "bob@x.org" /\ aResult.senders[1].totalCount = 1
  /\ aResult.senders[2].email = "news@shop.com" /\ aResult.senders[2].totalCount = 1
  /\ MessageKey(aMessages[1]) = "bob@x.org"
  /\ MessageKey(aMessages[3]) = "news@shop.com"

\* C37: every synchronisation and every deletion ends in exactly one response
\* to its requester: the requester is never answered twice, a synchronisation
\* is answered whatever the provider returns, pages without ids and with a
\* cursor included, and a deletion is answered once a page came without cursor
C37_EndsInOneResponse ==
  /\ [](replies <= 1)
  /\ (sOp = "loadAndAnalyzeEmails") ~> (replies = 1)
  /\ (sOp = "deleteEmailsFromSender" /\ sPc = "rest") ~> (replies = 1)

\* C38: after n addToHistory calls the stored history holds the
\* min(n, HistoryCap) records added last, the newest first: none of the last
\* HistoryCap records is missing and the list is never longer than HistoryCap
C38_HistoryKeepsNewest ==
  /\ Len(actionHistory) <= HistoryCap
  /\ hPc = "idle" =>
       actionHistory = [k \in 1..Min(hCalls, HistoryCap) |-> hCalls - k + 1]

\* what a finished white-list call asked for is in the store
Reflected(call) ==
  IF call.op = "addToWhitelist" THEN toLowerCase(call.email) \in storedWhitelist
  ELSE toLowerCase(call.email) \notin storedWhitelist

\* C39: no white-list update is lost: when two calls for different addresses,
\* at least one of them an addToWhitelist, have both returned, the stored
\* white list reflects both, however their storage steps interleaved
C39_NoLostUpdate ==
  \A c \in WhitelistCalls, d \in WhitelistCalls :
    (/\ wCalls[c].pc = "done" /\ wCalls[d].pc = "done"
     /\ toLowerCase(wCalls[c].email) # toLowerCase(wCalls[d].email)
     /\ wCalls[c].op = "addToWhitelist") =>
      Reflected(wCalls[c]) /\ Reflected(wCalls[d])

====
